---------------------------- MODULE Spec2Model ----------------------------
(***************************************************************************)
(* Model of the MassMechanic voice agent (bugglife/mass-mechanic-bot).     *)
(*                                                                         *)
(* One call session of the deterministic slot-filling server               *)
(* (src/unnamed/part_006): the Deepgram transcript handler, the grace /    *)
(* drain / release timers, say(), and drainPendingFinal() split at its     *)
(* await points.  Spec and SpecFair let the caller speak at any moment;    *)
(* SpecDialogue is the whole dialogue with a caller who waits for the bot. *)
(*                                                                         *)
(* Utterances are real strings; the extractors are computed on them the    *)
(* way the regular expressions of the source compute them.                 *)
(***************************************************************************)
EXTENDS Integers, Sequences, FiniteSets, TLC

\* ------------------------------------------------------------------------
\* Strings
\* ------------------------------------------------------------------------

Ch(s, i) == SubSeq(s, i, i)

Digits == {"0", "1", "2", "3", "4", "5", "6", "7", "8", "9"}

UpperSeq == "ABCDEFGHIJKLMNOPQRSTUVWXYZ"

LowerSeq == "abcdefghijklmnopqrstuvwxyz"

UpperLetters == {Ch(UpperSeq, i) : i \in 1..Len(UpperSeq)}

LowerLetters == {Ch(LowerSeq, i) : i \in 1..Len(LowerSeq)}

Letters == UpperLetters \cup LowerLetters

\* \w of a JavaScript regular expression
WordChars == Letters \cup Digits \cup {"_"}

\* \s (the utterances hold no other white space than the blank)
IsSpace(c) == c = " "

LowerCh(c) ==
  IF c \in UpperLetters
  THEN Ch(LowerSeq, CHOOSE i \in 1..Len(UpperSeq) : Ch(UpperSeq, i) = c)
  ELSE c

RECURSIVE LowerFrom(_, _)
LowerFrom(s, i) ==
  IF i > Len(s) THEN "" ELSE LowerCh(Ch(s, i)) \o LowerFrom(s, i + 1)

\* String.prototype.toLowerCase, and the /i flag of the patterns
Lower(s) == LowerFrom(s, 1)

\* String.prototype.trim
Trim(s) ==
  LET idx == {i \in 1..Len(s) : ~IsSpace(Ch(s, i))}
      lo == CHOOSE i \in idx : \A j \in idx : i <= j
      hi == CHOOSE i \in idx : \A j \in idx : j <= i
  IN IF idx = {} THEN "" ELSE SubSeq(s, lo, hi)

\* p occurs in s at position i
At(s, i, p) == i >= 1 /\ i + Len(p) - 1 <= Len(s) /\ SubSeq(s, i, i + Len(p) - 1) = p

\* an unanchored, case-sensitive search for the literal p
Contains(s, p) == \E i \in 1..(Len(s) - Len(p) + 1) : At(s, i, p)

\* /(a|b|c)/i.test(s) for literal alternatives
TestAny(s, alts) == LET l == Lower(s) IN \E p \in alts : Contains(l, p)

\* \b between positions i-1 and i of s (1-based; i = 1 and i = Len(s)+1 are the ends)
Boundary(s, i) ==
  LET before == i > 1 /\ Ch(s, i - 1) \in WordChars
      after == i <= Len(s) /\ Ch(s, i) \in WordChars
  IN before # after

\* /^(a|b|c)\b/i.test(s.trim())
StartsWithWord(s, alts) ==
  LET t == Lower(Trim(s))
  IN \E p \in alts : At(t, 1, p) /\ Boundary(t, Len(p) + 1)

\* /\b(a|b|c)\b/i.test(s)
TestWord(s, alts) ==
  LET l == Lower(s)
  IN \E p \in alts : \E i \in 1..Len(l) :
       At(l, i, p) /\ Boundary(l, i) /\ Boundary(l, i + Len(p))

\* length of the longest run of characters of class cls starting at position i
RECURSIVE Run(_, _, _)
Run(s, i, cls) ==
  IF i <= Len(s) /\ Ch(s, i) \in cls THEN 1 + Run(s, i + 1, cls) ELSE 0

AllIn(s, cls) == \A i \in 1..Len(s) : Ch(s, i) \in cls

Min(S) == CHOOSE x \in S : \A y \in S : x <= y

\* s with every character outside cls and not white space replaced by rep
RECURSIVE ReplaceOutside(_, _, _, _)
ReplaceOutside(s, i, cls, rep) ==
  IF i > Len(s) THEN ""
  ELSE (IF Ch(s, i) \in cls \/ IsSpace(Ch(s, i)) THEN Ch(s, i) ELSE rep)
       \o ReplaceOutside(s, i + 1, cls, rep)

\* s.replace(/\s+/g, " ")
RECURSIVE Collapse(_, _)
Collapse(s, i) ==
  IF i > Len(s) THEN ""
  ELSE IF IsSpace(Ch(s, i)) /\ i > 1 /\ IsSpace(Ch(s, i - 1)) THEN Collapse(s, i + 1)
  ELSE Ch(s, i) \o Collapse(s, i + 1)

\* s.split(/\s+/) of a string of letters and blanks, as a sequence of words
RECURSIVE Split(_, _)
Split(s, i) ==
  IF i > Len(s) THEN <<>>
  ELSE LET n == Run(s, i, Letters)
       IN IF n = 0 THEN Split(s, i + 1)
          ELSE <<SubSeq(s, i, i + n - 1)>> \o Split(s, i + n)

\* s.split(" ")
RECURSIVE WordEnd(_, _)
WordEnd(s, i) == IF i > Len(s) \/ Ch(s, i) = " " THEN i ELSE WordEnd(s, i + 1)

RECURSIVE Tokens(_, _)
Tokens(s, i) ==
  LET e == WordEnd(s, i)
  IN <<SubSeq(s, i, e - 1)>> \o (IF e > Len(s) THEN << >> ELSE Tokens(s, e + 1))

\* ------------------------------------------------------------------------
\* Helpers of the server (src/unnamed/part_006, section 0)
\* ------------------------------------------------------------------------

wantsHumanFromText(text) ==
  TestAny(text, {"operator", "representative", "human", "real person", "agent",
                 "someone", "talk to a person", "call me"})

looksLikeYes(text) ==
  StartsWithWord(text, {"yes", "yeah", "yep", "yup", "correct", "right",
                        "that's right", "thats right", "affirmative", "sure",
                        "ok", "okay", "mhm", "uh huh"})

looksLikeNo(text) ==
  StartsWithWord(text, {"no", "nope", "not really", "nah", "wrong", "incorrect"})

\* /\b(\d{5})(?:-\d{4})?\b/ : the first five-digit token, "" when there is none
extractZip(text) ==
  LET hit(i) == /\ Boundary(text, i)
                /\ i + 4 <= Len(text)
                /\ AllIn(SubSeq(text, i, i + 4), Digits)
                /\ \/ Boundary(text, i + 5)
                   \/ /\ At(text, i + 5, "-")
                      /\ i + 9 <= Len(text)
                      /\ AllIn(SubSeq(text, i + 6, i + 9), Digits)
                      /\ Boundary(text, i + 10)
      hits == {i \in 1..Len(text) : hit(i)}
  IN IF hits = {} THEN "" ELSE SubSeq(text, Min(hits), Min(hits) + 4)

\* the words that keep an utterance from being read as a name
NameBlockers ==
  {"leak", "leaking", "pull", "pulling", "brake", "braking", "start", "starting",
   "overheat", "check", "engine", "noise", "rattle", "clunk", "grind", "grinding",
   "squeal", "shake", "vibration", "smoke", "stall", "idle", "rough", "slip",
   "slipping", "shift", "puddle", "under"}

NameIntros ==
  {"my name is", "my name's", "this is", "i'm", "im", "i am", "it's", "its",
   "call me", "they call me"}

IntroStopWords ==
  {"the", "that", "this", "there", "here", "what", "when", "where", "how", "why",
   "my", "hi", "hello", "leak", "leaking", "pull", "pulling"}

BareStopWords ==
  {"the", "that", "this", "there", "here", "what", "when", "where", "how", "why",
   "yes", "yeah", "yep", "nope", "okay", "sure", "right", "wrong", "maybe", "think",
   "know", "well", "just", "like", "want", "need", "have", "cant", "don't", "wont",
   "hi", "hello", "hey", "leak", "leaking", "pull", "pulling", "brake", "start",
   "engine", "noise", "grind", "shake", "smoke", "code", "zip"}

\* Pattern 1 of extractName tried at position i of o: the captured group, or ""
IntroCapture(o, i) ==
  LET l == Lower(o)
      alts == {p \in NameIntros : At(l, i, p)}
      p == CHOOSE q \in alts : TRUE
      a == i + Len(p)                       \* first character after the intro
      w == Run(o, a, {" "})                 \* \s+
      b == a + w                            \* start of the first word
      n1 == Run(o, b, Letters)              \* [a-z]{2,}
      c == b + n1
      w2 == Run(o, c, {" "})                \* (?:\s+[a-z]+)?
      n2 == Run(o, c + w2, Letters)
      two == w2 >= 1 /\ n2 >= 1
      e == c + w2 + n2
      wordEnd(k) == ~(k <= Len(o) /\ Ch(o, k) \in Digits \cup {"_"})
  IN IF alts = {} \/ w < 1 \/ n1 < 2 THEN ""
     ELSE IF two /\ wordEnd(e) THEN SubSeq(o, b, e - 1)
     ELSE IF two \/ wordEnd(c) THEN SubSeq(o, b, c - 1)
     ELSE ""

extractName(text) ==
  LET original == Trim(text)
      hits == {i \in 1..Len(original) : IntroCapture(original, i) # ""}
      extracted == Trim(IntroCapture(original, Min(hits)))
      cleaned == Trim(ReplaceOutside(original, 1, Letters, ""))
      all == Split(cleaned, 1)
      words == SelectSeq(all, LAMBDA w : Len(w) >= 2)
      bare == Len(words) \in {1, 2} /\ Len(words[1]) >= 2 /\ Len(words[1]) <= 15
              /\ Lower(words[1]) \notin BareStopWords
  IN IF TestAny(original, NameBlockers) THEN ""
     ELSE IF hits # {} /\ Lower(extracted) \notin IntroStopWords THEN extracted
     ELSE IF bare THEN words[1]
     ELSE ""

\* /\b(19\d{2}|20[0-2]\d)\b/ at position i of s
YearAt(s, i) ==
  /\ Boundary(s, i)
  /\ i + 3 <= Len(s)
  /\ \/ At(s, i, "19") /\ Ch(s, i + 2) \in Digits /\ Ch(s, i + 3) \in Digits
     \/ At(s, i, "20") /\ Ch(s, i + 2) \in {"0", "1", "2"} /\ Ch(s, i + 3) \in Digits
  /\ Boundary(s, i + 4)

extractCarYear(text) ==
  LET hits == {i \in 1..Len(text) : YearAt(text, i)}
  IN IF hits = {} THEN "" ELSE SubSeq(text, Min(hits), Min(hits) + 3)

CarBlockers ==
  {"steering", "wheel", "pull", "pulling", "brake", "start", "overheat", "check",
   "engine", "noise", "rattle", "clunk", "grind", "squeal", "shake", "vibration",
   "leak", "leaking", "smoke", "stall", "idle", "rough", "slipping", "shift", "puddle"}

CarBrands ==
  {"toyota", "honda", "ford", "chevy", "chevrolet", "gmc", "dodge", "ram", "jeep",
   "nissan", "mazda", "subaru", "hyundai", "kia", "volkswagen", "vw", "bmw",
   "mercedes", "audi", "lexus", "acura", "infiniti", "cadillac", "buick", "lincoln",
   "volvo", "tesla", "porsche"}

\* /([A-Za-z]+)\s+([A-Za-z0-9]+)\b/ anchored at position i of s: "make model", or ""
MakeModelAt(s, i) ==
  LET n1 == Run(s, i, Letters)
      w == Run(s, i + n1, {" "})
      b == i + n1 + w
      n2 == Run(s, b, Letters \cup Digits)
  IN IF n1 >= 1 /\ w >= 1 /\ n2 >= 1 /\ Boundary(s, b + n2)
     THEN SubSeq(s, i, i + n1 - 1) \o " " \o SubSeq(s, b, b + n2 - 1)
     ELSE ""

extractCarMakeModel(text) ==
  LET cleaned == Trim(Collapse(ReplaceOutside(text, 1, WordChars, " "), 1))
      \* m1: "1992 Ford Explorer" -> "Ford Explorer"
      h1 == {i \in 1..Len(cleaned) :
               /\ YearAt(cleaned, i)
               /\ Run(cleaned, i + 4, {" "}) >= 1
               /\ MakeModelAt(cleaned, i + 4 + Run(cleaned, i + 4, {" "})) # ""}
      i1 == Min(h1)
      \* m2: the first two tokens, when a brand is named anywhere
      h2 == {i \in 1..Len(cleaned) : Boundary(cleaned, i) /\ MakeModelAt(cleaned, i) # ""}
  IN IF Len(cleaned) < 6 THEN ""
     ELSE IF TestAny(cleaned, CarBlockers) THEN ""
     ELSE IF StartsWithWord(cleaned, {"hi", "hello", "hey", "my", "me", "i", "the",
                                      "this", "that", "is", "it", "there"}) THEN ""
     ELSE IF h1 # {} THEN MakeModelAt(cleaned, i1 + 4 + Run(cleaned, i1 + 4, {" "}))
     ELSE IF TestWord(cleaned, CarBrands) /\ h2 # {} THEN MakeModelAt(cleaned, Min(h2))
     ELSE ""

\* s.split("").join(" ")
RECURSIVE JoinFrom(_, _)
JoinFrom(s, i) ==
  IF i > Len(s) THEN ""
  ELSE Ch(s, i) \o (IF i < Len(s) THEN " " ELSE "") \o JoinFrom(s, i + 1)

\* speakZipDigits that leaves every digit as it is
speakZipDigitsPlain(zip) == JoinFrom(zip, 1)

\* 02321 -> "zero 2 3 2 1"
RECURSIVE ZipDigitsFrom(_, _)
ZipDigitsFrom(zip, i) ==
  IF i > Len(zip) THEN ""
  ELSE (IF Ch(zip, i) = "0" THEN "zero" ELSE Ch(zip, i))
       \o (IF i < Len(zip) THEN " " ELSE "")
       \o ZipDigitsFrom(zip, i + 1)

speakZipDigits(zip) == ZipDigitsFrom(zip, 1)

categorizeIssue(text) ==
  LET has(alts) == TestAny(text, alts)
  IN IF has({"won't start", "wont start", "no start", "clicking", "starter",
             "dead battery", "jump start"}) THEN "no_start"
     ELSE IF has({"overheat", "overheating", "temperature gauge", "coolant",
                  "radiator", "steam"}) THEN "overheating"
     ELSE IF has({"brake", "grind", "squeal", "squeak", "pedal", "rotor"}) THEN "brakes"
     ELSE IF has({"pulls to the right", "pulls to the left", "pulling", "alignment",
                  "steering wheel", "drifts"}) THEN "pulling_alignment"
     ELSE IF has({"check engine", "cel", "engine light", "code", "misfire",
                  "rough idle"}) THEN "check_engine"
     ELSE IF has({"transmission", "slipping", "hard shift", "won't shift", "gear"})
          THEN "transmission"
     ELSE IF has({"ac", "a/c", "air conditioner", "no cold", "blowing warm"}) THEN "ac"
     ELSE IF has({"battery", "alternator", "charging", "lights dim", "electrical"})
          THEN "electrical"
     ELSE IF has({"flat tire", "tire", "puncture", "blowout"}) THEN "tire"
     ELSE IF has({"noise", "rattle", "clunk", "knock"}) THEN "noise"
     ELSE IF has({"leak", "leaking", "fluid", "puddle", "drip", "dripping"}) THEN "leak"
     ELSE "general"

\* Math.max(1500, Math.min(10000, Math.ceil(text.length / 12) * 1000)), in ms
estimateSpeakMs(text) ==
  LET ceil == (Len(text) + 11) \div 12
      ms == ceil * 1000
      capped == IF ms > 10000 THEN 10000 ELSE ms
  IN IF capped < 1500 THEN 1500 ELSE capped

FOLLOWUP_BY_CATEGORY ==
  [brakes |-> "Got it. Are you hearing squeaking or grinding, and does it happen only when braking or all the time?",
   pulling_alignment |-> "Okay. Does it pull mostly at higher speeds, and does the steering wheel shake or feel off-center?",
   no_start |-> "I understand. When you turn the key, do you hear a click, a crank, or nothing at all? And are the dash lights on?",
   overheating |-> "Got it. Has the temp gauge gone into the red, or have you seen steam or coolant leaks? How long into driving does it happen?",
   check_engine |-> "Okay. Is the car running rough or losing power? And is the light flashing or solid?",
   transmission |-> "I see. Is it slipping, shifting hard, or refusing to go into gear? Any warning lights?",
   ac |-> "Understood. Is it blowing warm air constantly or only at idle? Any unusual noises when the AC is on?",
   electrical |-> "Got it. Are you seeing dimming lights, a battery warning, or intermittent power issues? When did it start?",
   tire |-> "Okay. Is the tire flat right now, or losing air slowly?",
   noise |-> "I hear you. Is it more like a clunk, knock, or rattle, and does it happen over bumps, turning, or accelerating?",
   leak |-> "Understood. What color is the fluid? And is it leaking while parked or only when running?",
   general |-> "Okay, tell me more about what's happening."]

\* (the dash of the source's texts is written "-": one character, as in the source)
VOICE_GREETING ==
  "Thanks for calling Mass Mechanic - we connect you with trusted local mechanics for fast, free repair quotes. Tell me what's wrong with your car or ask me a quick question."

\* which field a reply to "what should I correct" names: the four tests of
\* the correction branch, in the order the code makes them ("" when none)
correctionChoice(text) ==
  IF TestAny(text, {"zip", "zip code", "zipcode"}) THEN "zip"
  ELSE IF TestAny(text, {"name", "first name"}) THEN "name"
  ELSE IF TestAny(text, {"car", "vehicle", "make", "model"}) THEN "car"
  ELSE IF TestAny(text, {"issue", "problem", "wrong"}) THEN "issue"
  ELSE ""

\* an utterance with what the tests and extractors of the server find in it
Heard(u) ==
  [text |-> u, human |-> wantsHumanFromText(u), yes |-> looksLikeYes(u),
   no |-> looksLikeNo(u), zip |-> extractZip(u), name |-> extractName(u),
   year |-> extractCarYear(u), makeModel |-> extractCarMakeModel(u),
   category |-> categorizeIssue(u), choice |-> correctionChoice(u)]

\* F applied to the value of v
Then(v, F(_)) == CHOOSE r \in {F(x) : x \in {v}} : TRUE

\* ------------------------------------------------------------------------
\* The dialogue state and the deterministic policy of drainPendingFinal
\* ------------------------------------------------------------------------

\* (drivable and urgency_window are never written by the server and stay "")
InitState ==
  [name |-> "", zip |-> "", issueText |-> "", issueCategory |-> "general",
   askedFollowup |-> FALSE, awaitingFollowupResponse |-> FALSE,
   awaitingConfirmation |-> FALSE, awaitingCorrectionChoice |-> FALSE,
   correctingField |-> "null", confirmed |-> FALSE,
   carMakeModel |-> "", carYear |-> "", leadCreated |-> FALSE,
   currentStep |-> "issue"]

readyToConfirm(st) ==
  st.issueText # "" /\ st.carMakeModel # "" /\ st.name # "" /\ st.zip # ""

\* which choice of correction clears which slot
FieldOf ==
  [issueText |-> "issue", carMakeModel |-> "car", carYear |-> "car",
   name |-> "name", zip |-> "zip"]

Slots == DOMAIN FieldOf

\* CorrectField where the named slot keeps its value
CorrectFieldKeeps(st, f) ==
  [st EXCEPT !.correctingField = f, !.currentStep = f, !.awaitingCorrectionChoice = FALSE]

\* the reply to "what should I correct": the named slot is cleared
CorrectField(st, f) ==
  CASE f = "zip" -> [st EXCEPT !.correctingField = f, !.zip = "", !.currentStep = f,
                               !.awaitingCorrectionChoice = FALSE]
    [] f = "name" -> [st EXCEPT !.correctingField = f, !.name = "", !.currentStep = f,
                                !.awaitingCorrectionChoice = FALSE]
    [] f = "car" -> [st EXCEPT !.correctingField = f, !.carMakeModel = "", !.carYear = "",
                               !.currentStep = f, !.awaitingCorrectionChoice = FALSE]
    [] f = "issue" -> [st EXCEPT !.correctingField = f, !.issueText = "", !.currentStep = f,
                                 !.awaitingCorrectionChoice = FALSE]

CorrectionQuestion(f) ==
  CASE f = "zip" -> "Okay, what's your 5-digit ZIP code?"
    [] f = "name" -> "Okay, what's your first name?"
    [] f = "car" -> "Okay, what's the make and model of your car?"
    [] f = "issue" -> "Okay, tell me what's wrong with your car."

\* the answer to the follow-up question is appended to the issue
CaptureFollowup(st, h) ==
  IF st.awaitingFollowupResponse /\ Len(h.text) > 3
  THEN [st EXCEPT !.issueText = st.issueText \o ". " \o h.text,
                  !.awaitingFollowupResponse = FALSE, !.currentStep = "car"]
  ELSE st

\* CaptureZip that takes no ZIP while a correction is under way
CaptureZipUncorrected(st, h) ==
  IF st.currentStep = "zip" /\ st.zip = "" /\ h.zip # "" /\ st.correctingField = "null"
  THEN [st EXCEPT !.zip = h.zip]
  ELSE st

\* CaptureZip at any step, over a ZIP already there
CaptureZipAlways(st, h) ==
  IF h.zip # ""
  THEN [st EXCEPT !.zip = h.zip, !.correctingField = "null"]
  ELSE st

CaptureZip(st, h) ==
  IF st.currentStep = "zip" /\ st.zip = "" /\ h.zip # ""
  THEN [st EXCEPT !.zip = h.zip, !.correctingField = "null"]
  ELSE st

CaptureName(st, h) ==
  IF st.currentStep = "name" /\ st.name = "" /\ h.name # ""
  THEN [st EXCEPT !.name = h.name, !.correctingField = "null"]
  ELSE st

CaptureYear(st, h) ==
  IF st.currentStep = "car" /\ st.carYear = "" /\ h.year # ""
  THEN [st EXCEPT !.carYear = h.year]
  ELSE st

CaptureMakeModel(st, h) ==
  IF st.currentStep = "car" /\ st.carMakeModel = "" /\ h.makeModel # ""
  THEN [st EXCEPT !.carMakeModel = h.makeModel, !.correctingField = "null"]
  ELSE st

\* CaptureIssue that takes whatever is said
CaptureIssueAnyText(st, h) ==
  IF st.currentStep = "issue" /\ st.issueText = ""
  THEN [st EXCEPT !.issueText = h.text, !.issueCategory = h.category,
                  !.correctingField = "null"]
  ELSE st

\* CaptureIssue that leaves the category as it is
CaptureIssueUncategorized(st, h) ==
  IF /\ st.currentStep = "issue" /\ st.issueText = ""
     /\ h.zip = "" /\ h.name = "" /\ Len(h.text) > 6
  THEN [st EXCEPT !.issueText = h.text, !.correctingField = "null"]
  ELSE st

CaptureIssue(st, h) ==
  IF /\ st.currentStep = "issue" /\ st.issueText = ""
     /\ h.zip = "" /\ h.name = "" /\ Len(h.text) > 6
  THEN [st EXCEPT !.issueText = h.text, !.issueCategory = h.category,
                  !.correctingField = "null"]
  ELSE st

\* the step-gated extraction, in the order of the code
Extract(st, h) ==
  Then(CaptureFollowup(st, h), LAMBDA s1 :
  Then(CaptureZip(s1, h), LAMBDA s2 :
  Then(CaptureName(s2, h), LAMBDA s3 :
  Then(CaptureYear(s3, h), LAMBDA s4 :
  Then(CaptureMakeModel(s4, h), LAMBDA s5 : CaptureIssue(s5, h))))))

ConfirmText(st) ==
  LET carSpoken == Trim((IF st.carYear # "" THEN st.carYear \o " " ELSE "") \o st.carMakeModel)
  IN "To confirm: you're in ZIP " \o speakZipDigits(st.zip) \o ", the car is a " \o carSpoken
     \o ", and the issue is \"" \o st.issueText \o "\". Is that right?"

ClosingText(st) ==
  "Perfect - thanks, " \o st.name \o ". We'll connect you with a trusted local mechanic near ZIP "
  \o speakZipDigits(st.zip) \o "."

\* What one turn decides once the utterance is not a request for a human:
\* the new dialogue state, what happens next (act: "say" a text, "yes" the
\* confirmed path, "gpt" the backup) and the kind of the text said.
Reply(st, say, kind) == [state |-> st, act |-> "say", say |-> say, kind |-> kind]

\* AnswerCorrection that goes back to the confirmation when no field is named
AnswerCorrectionOnce(st, h) ==
  IF h.choice # ""
  THEN Reply(CorrectField(st, h.choice), CorrectionQuestion(h.choice), h.choice)
  ELSE Reply([st EXCEPT !.awaitingCorrectionChoice = FALSE, !.awaitingConfirmation = TRUE],
             "Sorry, I didn't catch that. Would you like to correct your ZIP code, your name, the car, or the issue?",
             "recorrect")

AnswerCorrection(st, h) ==
  IF h.choice # ""
  THEN Reply(CorrectField(st, h.choice), CorrectionQuestion(h.choice), h.choice)
  ELSE Reply(st, "Sorry, I didn't catch that. Would you like to correct your ZIP code, your name, the car, or the issue?",
             "recorrect")

\* AnswerConfirmation where a no leaves the confirmation awaited
AnswerConfirmationKeepsFlag(st, h) ==
  IF h.yes
  THEN [state |-> [st EXCEPT !.confirmed = TRUE, !.awaitingConfirmation = FALSE],
        act |-> "yes", say |-> "", kind |-> "closing"]
  ELSE IF h.no
  THEN Reply([st EXCEPT !.awaitingCorrectionChoice = TRUE],
             "No problem - what should I correct: your ZIP code, your name, the car, or the issue?",
             "correct")
  ELSE Reply(st, "Sorry, I didn't catch that. Is that information correct?", "reconfirm")

\* AnswerConfirmation where a yes leaves the confirmation open
AnswerConfirmationOpen(st, h) ==
  IF h.yes
  THEN [state |-> st, act |-> "yes", say |-> "", kind |-> "closing"]
  ELSE IF h.no
  THEN Reply([st EXCEPT !.awaitingConfirmation = FALSE, !.awaitingCorrectionChoice = TRUE],
             "No problem - what should I correct: your ZIP code, your name, the car, or the issue?",
             "correct")
  ELSE Reply(st, "Sorry, I didn't catch that. Is that information correct?", "reconfirm")

\* AnswerConfirmation where whatever is not a no counts as a yes
AnswerConfirmationLax(st, h) ==
  IF h.yes \/ ~h.no
  THEN [state |-> [st EXCEPT !.confirmed = TRUE, !.awaitingConfirmation = FALSE],
        act |-> "yes", say |-> "", kind |-> "closing"]
  ELSE Reply([st EXCEPT !.awaitingConfirmation = FALSE, !.awaitingCorrectionChoice = TRUE],
             "No problem - what should I correct: your ZIP code, your name, the car, or the issue?",
             "correct")

AnswerConfirmation(st, h) ==
  IF h.yes
  THEN [state |-> [st EXCEPT !.confirmed = TRUE, !.awaitingConfirmation = FALSE],
        act |-> "yes", say |-> "", kind |-> "closing"]
  ELSE IF h.no
  THEN Reply([st EXCEPT !.awaitingConfirmation = FALSE, !.awaitingCorrectionChoice = TRUE],
             "No problem - what should I correct: your ZIP code, your name, the car, or the issue?",
             "correct")
  ELSE Reply(st, "Sorry, I didn't catch that. Is that information correct?", "reconfirm")

\* NextStep where the confirmation does not wait for the ZIP
NextStepEarlyConfirm(st) ==
  IF st.issueText = ""
  THEN Reply([st EXCEPT !.currentStep = "issue"], "Tell me what's wrong with your car.", "issue")
  ELSE IF ~st.askedFollowup
  THEN Reply([st EXCEPT !.askedFollowup = TRUE, !.awaitingFollowupResponse = TRUE,
                        !.currentStep = "followup"],
             FOLLOWUP_BY_CATEGORY[st.issueCategory], "followup")
  ELSE IF st.carMakeModel = ""
  THEN Reply([st EXCEPT !.currentStep = "car"], "What's the make and model of your car?", "car")
  ELSE IF st.name = ""
  THEN Reply([st EXCEPT !.currentStep = "name"], "And what's your first name?", "name")
  ELSE IF ~st.confirmed /\ ~st.awaitingConfirmation
  THEN Reply([st EXCEPT !.awaitingConfirmation = TRUE, !.currentStep = "confirm"],
             ConfirmText(st), "confirm")
  ELSE [state |-> st, act |-> "gpt", say |-> "", kind |-> "gpt"]

\* NextStep where the name comes before the car
NextStepNameFirst(st) ==
  IF st.issueText = ""
  THEN Reply([st EXCEPT !.currentStep = "issue"], "Tell me what's wrong with your car.", "issue")
  ELSE IF ~st.askedFollowup
  THEN Reply([st EXCEPT !.askedFollowup = TRUE, !.awaitingFollowupResponse = TRUE,
                        !.currentStep = "followup"],
             FOLLOWUP_BY_CATEGORY[st.issueCategory], "followup")
  ELSE IF st.name = ""
  THEN Reply([st EXCEPT !.currentStep = "name"], "And what's your first name?", "name")
  ELSE IF st.carMakeModel = ""
  THEN Reply([st EXCEPT !.currentStep = "car"], "What's the make and model of your car?", "car")
  ELSE IF st.zip = ""
  THEN Reply([st EXCEPT !.currentStep = "zip"], "What's your 5-digit ZIP code?", "zip")
  ELSE IF readyToConfirm(st) /\ ~st.confirmed /\ ~st.awaitingConfirmation
  THEN Reply([st EXCEPT !.awaitingConfirmation = TRUE, !.currentStep = "confirm"],
             ConfirmText(st), "confirm")
  ELSE [state |-> st, act |-> "gpt", say |-> "", kind |-> "gpt"]

\* the place of each question in the flow
Rank == [issue |-> 1, followup |-> 2, car |-> 3, name |-> 4, zip |-> 5, confirm |-> 6]

NextStep(st) ==
  IF st.issueText = ""
  THEN Reply([st EXCEPT !.currentStep = "issue"], "Tell me what's wrong with your car.", "issue")
  ELSE IF ~st.askedFollowup
  THEN Reply([st EXCEPT !.askedFollowup = TRUE, !.awaitingFollowupResponse = TRUE,
                        !.currentStep = "followup"],
             FOLLOWUP_BY_CATEGORY[st.issueCategory], "followup")
  ELSE IF st.carMakeModel = ""
  THEN Reply([st EXCEPT !.currentStep = "car"], "What's the make and model of your car?", "car")
  ELSE IF st.name = ""
  THEN Reply([st EXCEPT !.currentStep = "name"], "And what's your first name?", "name")
  ELSE IF st.zip = ""
  THEN Reply([st EXCEPT !.currentStep = "zip"], "What's your 5-digit ZIP code?", "zip")
  ELSE IF readyToConfirm(st) /\ ~st.confirmed /\ ~st.awaitingConfirmation
  THEN Reply([st EXCEPT !.awaitingConfirmation = TRUE, !.currentStep = "confirm"],
             ConfirmText(st), "confirm")
  ELSE [state |-> st, act |-> "gpt", say |-> "", kind |-> "gpt"]

Decide(st, h) ==
  IF st.awaitingCorrectionChoice THEN AnswerCorrection(st, h)
  ELSE Then(Extract(st, h), LAMBDA ex :
         IF ex.awaitingConfirmation /\ ~ex.confirmed
         THEN AnswerConfirmation(ex, h)
         ELSE NextStep(ex))

\* ------------------------------------------------------------------------
\* One call session (the closure of wss.on("connection"))
\* ------------------------------------------------------------------------

\* Time is in milliseconds and kept relative to Date.now():
\*   speakUntilTs      is what is left until the instant speakUntilTs (0 once passed),
\*   lastBotQuestionAt is the time since that instant, counted up to GraceMs,
\*   a timer           is the time left until it is due.
VARIABLES
  ws,                 \* ws.readyState: "open", "closing", "closed"
  dgOpen,             \* deepgramLive not closed yet
  streamSid,          \* "" until the start event
  greeted,
  transferred,
  isSpeaking,
  speakUntilTs,
  processing,
  pendingFinal,       \* "" for null
  lastBotQuestionAt,
  state,
  timers,             \* pending setTimeout callbacks, in creation order
  pc,                 \* where drainPendingFinal is suspended: "idle" when not running
  branch,             \* which path the suspended turn is on
  text,               \* the utterance of the running turn
  saying,             \* per caller of say(): where speakOverStream is suspended
  startPc,            \* the start handler: "none", "upsert", "say", "done"
  stopPc,             \* the stop handler: "none", "upsert", "done"
  leadCalls,          \* how many times createLeadFromCall was invoked
  sent,               \* kinds of events sent to Twilio since the last final transcript
  asked,              \* kinds of the questions asked so far
  lastQ,              \* kind of the last text said
  corrected,          \* the caller has answered a confirmation with a no
  latestFinal,        \* the most recent final transcript no turn has taken yet
  arrival,            \* how the pending transcript arrived: during a turn, while
                      \* isSpeaking, and which pending transcript it replaced
  turnArrival,        \* how the transcript of the running turn had arrived
  stale,              \* a turn was given something else than the latest undispatched transcript
  overlap,            \* drainPendingFinal was entered while already running
  finals,             \* how many final transcripts were counted so far
  vocab,              \* what this caller may say
  logged,             \* the failures written with console.error, in order
  outcomes,           \* the outcome of every patch handed to upsertCallOutcome, in order
  sinceSpoke,         \* the time since the instant speakUntilTs, counted up to GraceMs
  rows,               \* the call_outcomes rows of this call: the outcome each one holds
  calls,              \* per caller of upsertCallOutcome: where its call is suspended
  lastFinalText,      \* server.js: the normalized text isDuplicateFinal compares with
  lastFinalAt,        \* server.js: the time since that instant, counted up to DuplicateMs
  pendingFinalText,   \* server.js: "" when none
  finalDebounceTimer, \* server.js: the time left, -1 when there is none
  heard,              \* server.js: the final transcripts so far: text, time since, accepted
  dispatched,         \* server.js: the texts handed to processAiResponse
  intake,             \* part_001: the session of one call, its turns and what it sent
  hangup,             \* part_004: the session of one call, its replies and its timers
  helper,             \* part_006, part_001: one helper, its argument and what it returned
  router              \* part_000: the session of one call, its replies and its timers

session ==
  <<ws, dgOpen, streamSid, greeted, transferred, isSpeaking, speakUntilTs, processing,
    pendingFinal, lastBotQuestionAt, state, timers, pc, branch, text, saying, startPc,
    stopPc, leadCalls, sent, asked, lastQ, corrected, latestFinal, arrival,
    turnArrival, stale, overlap, finals, vocab, logged, outcomes, sinceSpoke>>

\* the table call_outcomes and the calls of upsertCallOutcome in flight
sink == <<rows, calls>>

\* the final-transcript debouncer of server.js
debouncer ==
  <<lastFinalText, lastFinalAt, pendingFinalText, finalDebounceTimer, heard, dispatched>>

\* the sessions of the earlier variants of the server (part_001, part_004,
\* part_000) and the helper under test
variants == <<intake, hangup, helper, router>>

vars == <<session, sink, debouncer, variants>>

\* the session as one record, so that the steps of a handler compose
Cur ==
  [ws |-> ws, dgOpen |-> dgOpen, streamSid |-> streamSid, greeted |-> greeted,
   transferred |-> transferred, isSpeaking |-> isSpeaking, speakUntilTs |-> speakUntilTs,
   processing |-> processing, pendingFinal |-> pendingFinal,
   lastBotQuestionAt |-> lastBotQuestionAt, state |-> state, timers |-> timers, pc |-> pc,
   branch |-> branch, text |-> text, saying |-> saying, startPc |-> startPc,
   stopPc |-> stopPc, leadCalls |-> leadCalls, sent |-> sent,
   asked |-> asked, lastQ |-> lastQ, corrected |-> corrected, latestFinal |-> latestFinal,
   arrival |-> arrival, turnArrival |-> turnArrival, stale |-> stale, overlap |-> overlap,
   finals |-> finals, vocab |-> vocab, logged |-> logged, outcomes |-> outcomes,
   sinceSpoke |-> sinceSpoke]

Commit(m) ==
  /\ ws' = m.ws /\ dgOpen' = m.dgOpen /\ streamSid' = m.streamSid /\ greeted' = m.greeted
  /\ transferred' = m.transferred /\ isSpeaking' = m.isSpeaking
  /\ speakUntilTs' = m.speakUntilTs /\ processing' = m.processing
  /\ pendingFinal' = m.pendingFinal /\ lastBotQuestionAt' = m.lastBotQuestionAt
  /\ state' = m.state /\ timers' = m.timers /\ pc' = m.pc /\ branch' = m.branch
  /\ text' = m.text /\ saying' = m.saying /\ startPc' = m.startPc /\ stopPc' = m.stopPc
  /\ leadCalls' = m.leadCalls /\ sent' = m.sent
  /\ asked' = m.asked /\ lastQ' = m.lastQ /\ corrected' = m.corrected
  /\ latestFinal' = m.latestFinal /\ arrival' = m.arrival /\ turnArrival' = m.turnArrival
  /\ stale' = m.stale /\ overlap' = m.overlap /\ finals' = m.finals /\ vocab' = m.vocab
  /\ logged' = m.logged /\ outcomes' = m.outcomes /\ sinceSpoke' = m.sinceSpoke
  /\ UNCHANGED <<sink, debouncer, variants>>

GraceMs == 800

DrainDelayMs == 400

ReleaseBufferMs == 500

FailedSpeakMs == 500

RetryBackoffMs == 500

retries == 2

\* how many final transcripts one call delivers at most
MaxFinals == 2

\* the handlers that call upsertCallOutcome whatever the caller says
Callers == {"start", "stop", "close"}

DuplicateMs == 1500

DebounceMs == 450

NotSaying == [pc |-> "none", ms |-> 0, attempt |-> 0]

\* ------------------------------------------------------------------------
\* Helpers and state of the variant src/unnamed/part_001
\* ------------------------------------------------------------------------

\* String(zip).replace(/\D/g, "")
RECURSIVE DigitsOf(_, _)
DigitsOf(s, i) ==
  IF i > Len(s) THEN ""
  ELSE (IF Ch(s, i) \in Digits THEN Ch(s, i) ELSE "") \o DigitsOf(s, i + 1)

\* normalizeZip: the five digits of zip, "" when it has not exactly five
normalizeZip(zip) ==
  IF Len(DigitsOf(zip, 1)) = 5 THEN DigitsOf(zip, 1) ELSE ""

\* /\b0?\d{3,5}\b/.test(t): a token of three to five digits, or of six after a 0
looksLikeZipAttempt(t) ==
  \E i \in 1..Len(t) : \E n \in 3..6 :
    /\ Boundary(t, i) /\ i + n - 1 <= Len(t)
    /\ AllIn(SubSeq(t, i, i + n - 1), Digits)
    /\ Boundary(t, i + n)
    /\ n <= 5 \/ Ch(t, i) = "0"

\* looksLikeYes and looksLikeNo of part_001 (the alternative with the
\* typographic apostrophe matches no text of ASCII characters and is left out)
looksLikeYesShort(t) ==
  StartsWithWord(t, {"yes", "yeah", "yep", "correct", "right",
                     "thats right", "affirmative", "sure", "ok", "okay"})

looksLikeNoShort(t) ==
  StartsWithWord(t, {"no", "nope", "not really", "wrong", "incorrect"})

\* the first pattern of extractName of part_001 tried at position i: m[2], or ""
ShortIntroCapture(o, i) ==
  LET l == Lower(o)
      alts == {p \in {"my name is", "this is", "i'm", "im"} : At(l, i, p)}
      p == CHOOSE q \in alts : TRUE
      a == i + Len(p)
      w == Run(o, a, {" "})
      b == a + w
      n1 == Run(o, b, Letters)
      c == b + n1
      w2 == Run(o, c, {" "})
      n2 == Run(o, c + w2, Letters)
      two == w2 >= 1 /\ n2 >= 1
      e == c + w2 + n2
      wordEnd(k) == ~(k <= Len(o) /\ Ch(o, k) \in Digits \cup {"_"})
  IN IF alts = {} \/ ~Boundary(o, i) \/ w < 1 \/ n1 < 1 THEN ""
     ELSE IF two /\ wordEnd(e) THEN SubSeq(o, b, e - 1)
     ELSE IF two \/ wordEnd(c) THEN SubSeq(o, b, c - 1)
     ELSE ""

\* extractName of part_001
extractNameShort(t) ==
  LET hits == {i \in 1..Len(t) : ShortIntroCapture(t, i) # ""}
      s == Trim(t)
      n1 == Run(s, 1, Letters)
      w == Run(s, n1 + 1, {" "})
      n2 == Run(s, n1 + w + 1, Letters)
      bare == /\ n1 >= 2 /\ Len(s) <= 20
              /\ \/ n1 = Len(s)
                 \/ w >= 1 /\ n2 >= 2 /\ n1 + w + n2 = Len(s)
  IN IF hits # {} THEN Trim(ShortIntroCapture(t, Min(hits)))
     ELSE IF bare THEN s
     ELSE ""

\* what the caller of part_001 may say
IntakeUtterances ==
  {"0232", "02321", "Tom", "my brakes are grinding", "yes", "no", "operator"}

\* what the helpers of part_001 make of each utterance
IntakeHeard ==
  [u \in IntakeUtterances |->
     [text |-> u, human |-> wantsHumanFromText(u), yes |-> looksLikeYesShort(u),
      no |-> looksLikeNoShort(u), zip |-> extractZip(u), name |-> extractNameShort(u),
      attempt |-> looksLikeZipAttempt(u), issue |-> Trim(u), length |-> Len(u)]]

\* the state of a call of part_001 (issueCategory, which only selects the
\* wording of the follow-up question, is left out)
IntakeState ==
  [name |-> "", zip |-> "", zipAttempts |-> 0, issueText |-> "", askedFollowup |-> FALSE,
   awaitingConfirmation |-> FALSE, confirmed |-> FALSE, leadCreated |-> FALSE]

\* a call of part_001 when its socket is connected: turns holds every call
\* of speakOverStream or processTurn so far, sent what was sent to Twilio,
\* vocab what the helpers make of what this caller may say
Intake ==
  [state |-> IntakeState, transferred |-> FALSE, greeted |-> FALSE, streamSid |-> "",
   wsOpen |-> TRUE, turns |-> << >>, sent |-> << >>, vocab |-> IntakeHeard, finals |-> 0]

\* a turn of part_001: the text it was given, the line it speaks, where it
\* is suspended, and whether it is in the catch block of processTurn
IntakeTurn(t, line, at) == [text |-> t, line |-> line, pc |-> at, caught |-> FALSE]

\* the call after "Tom", "02321", "my brakes are grinding" and "Tom" again,
\* each said when the line before was over: the confirmation is awaited
IntakeAtConfirm ==
  [Intake EXCEPT
     !.state = [name |-> "Tom", zip |-> "02321", zipAttempts |-> 0,
                issueText |-> "my brakes are grinding", askedFollowup |-> TRUE,
                awaitingConfirmation |-> TRUE, confirmed |-> FALSE, leadCreated |-> FALSE],
     !.greeted = TRUE, !.streamSid = "MZ",
     !.turns = <<IntakeTurn("", "greeting", "done"), IntakeTurn("Tom", "zip", "done"),
                 IntakeTurn("02321", "issue", "done"),
                 IntakeTurn("my brakes are grinding", "followup", "done"),
                 IntakeTurn("Tom", "confirm", "done")>>,
     !.sent = [i \in 1..10 |-> [event |-> IF i % 2 = 1 THEN "clear" ELSE "media",
                                 turn |-> (i + 1) \div 2]]]

\* ------------------------------------------------------------------------
\* State of the variant src/unnamed/part_004
\* ------------------------------------------------------------------------

\* NUMBER_WORDS_MAP without its entries of more than one character
NUMBER_WORDS_MAP ==
  [zero |-> "0", oh |-> "0", o |-> "0", one |-> "1", won |-> "1", two |-> "2", to |-> "2",
   too |-> "2", three |-> "3", tree |-> "3", four |-> "4", for |-> "4", five |-> "5",
   six |-> "6", seven |-> "7", eight |-> "8", ate |-> "8", nine |-> "9"]

TENS_MAP ==
  [twenty |-> "2", thirty |-> "3", forty |-> "4", fifty |-> "5", sixty |-> "6",
   seventy |-> "7", eighty |-> "8", ninety |-> "9"]

\* text.toLowerCase().replace(/[^a-z0-9\s]/g, " ").trim()
PhoneText(t) == Trim(ReplaceOutside(Lower(t), 1, LowerLetters \cup Digits, " "))

\* q.split(/\s+/) of a trimmed string
RECURSIVE PhoneWords(_, _)
PhoneWords(q, i) ==
  IF i > Len(q) THEN << >>
  ELSE LET n == Run(q, i, LowerLetters \cup Digits)
       IN IF n = 0 THEN PhoneWords(q, i + 1)
          ELSE <<SubSeq(q, i, i + n - 1)>> \o PhoneWords(q, i + n)

\* /(\d{3})[\s.-]?(\d{3})[\s.-]?(\d{4})/ tried at position i of q: the
\* digits of the match, "" when there is none
PhoneAt(q, i) ==
  LET d(a, n) == a + n - 1 <= Len(q) /\ AllIn(SubSeq(q, a, a + n - 1), Digits)
      gap(a) == IF a <= Len(q) /\ Ch(q, a) \in {" ", ".", "-"} THEN 1 ELSE 0
      b == i + 3 + gap(i + 3)
      c == b + 3 + gap(b + 3)
  IN IF d(i, 3) /\ d(b, 3) /\ d(c, 4)
     THEN SubSeq(q, i, i + 2) \o SubSeq(q, b, b + 2) \o SubSeq(q, c, c + 3)
     ELSE ""

\* the loop of extractPhoneNumber from word i on
RECURSIVE PhoneDigits(_, _)
PhoneDigits(words, i) ==
  IF i > Len(words) THEN ""
  ELSE LET word == words[i]
           single(w) == w \in DOMAIN NUMBER_WORDS_MAP
           more == i + 1 <= Len(words)
       IN IF word = "hundred" THEN "00" \o PhoneDigits(words, i + 1)
          ELSE IF word \in DOMAIN TENS_MAP
          THEN IF more /\ single(words[i + 1])
               THEN TENS_MAP[word] \o NUMBER_WORDS_MAP[words[i + 1]] \o PhoneDigits(words, i + 2)
               ELSE TENS_MAP[word] \o "0" \o PhoneDigits(words, i + 1)
          ELSE IF word = "double" /\ more /\ single(words[i + 1])
          THEN NUMBER_WORDS_MAP[words[i + 1]] \o NUMBER_WORDS_MAP[words[i + 1]]
               \o PhoneDigits(words, i + 2)
          ELSE IF single(word) THEN NUMBER_WORDS_MAP[word] \o PhoneDigits(words, i + 1)
          ELSE IF AllIn(word, Digits) THEN word \o PhoneDigits(words, i + 1)
          ELSE PhoneDigits(words, i + 1)

\* extractPhoneNumber, "" for null
extractPhoneNumber(t) ==
  LET q == PhoneText(t)
      hits == {i \in 1..Len(q) : PhoneAt(q, i) # ""}
  IN IF hits # {} THEN PhoneAt(q, Min(hits)) ELSE PhoneDigits(PhoneWords(q, 1), 1)

\* what the caller of part_004 may say
HangupUtterances ==
  {"honda civic", "it makes a grinding noise", "617-555-1234", "six one seven", "hello"}

\* what routeIntent tests of each utterance
HangupHeard ==
  [u \in HangupUtterances |->
     [text |-> u, phone |-> extractPhoneNumber(u),
      where |-> TestAny(u, {"where", "location", "address", "located"}),
      hours |-> TestAny(u, {"hour", "open", "close"}),
      brand |-> TestAny(u, {"ford", "toyota", "honda", "nissan", "chevy", "bmw", "volvo",
                            "jeep"}),
      book |-> TestAny(u, {"book", "appointment", "schedule", "broken", "repair", "help",
                           "car"})]]

\* a call of part_004 when its socket is connected: ctx holds ctx.state
\* and ctx.data.phone, replies the reply of every message id, timers the
\* pending hang-up timers, abandoned the ids of those that ran in vain
Hangup ==
  [ctx |-> [state |-> "greeting", phone |-> ""], speaking |-> FALSE, currentMsgId |-> 0,
   wsOpen |-> TRUE, streamSid |-> "", replies |-> << >>, timers |-> << >>, sent |-> << >>,
   closedBy |-> 0, abandoned |-> {}, finals |-> 0, vocab |-> HangupHeard]

\* what the caller of part_000 may say; no word of these is in NUMBER_WORDS_MAP
\* of part_000 or of part_004, whose extractPhoneNumber differ by that table only
RouterUtterances ==
  {"yes", "no", "speak with the owner", "i am a mechanic partner", "617-555-1234",
   "call me back", "02321", "2015", "it is"}

\* what routeIntent of part_000 tests of each utterance
RouterHeard ==
  [u \in RouterUtterances |->
     [text |-> u, phone |-> extractPhoneNumber(u),
      manager |-> TestAny(u, {"manager", "operator", "supervisor", "owner", "speak with",
                              "talk to a person"}),
      please |-> TestAny(u, {"yes", "sure", "please"}),
      wrong |-> TestAny(u, {"no", "wrong"}),
      correct |-> TestAny(u, {"yes", "correct", "right"}),
      mechanic |-> TestAny(u, {"mechanic"}) /\ TestAny(u, {"looking for work", "partner"}),
      book |-> TestAny(u, {"book", "schedule", "repair", "yes", "sure"}),
      zip |-> \E i \in 1..Len(u) :
                /\ Run(u, i, Digits) = 5
                /\ (i = 1 \/ Ch(u, i - 1) \notin WordChars)
                /\ (i + 5 > Len(u) \/ Ch(u, i + 5) \notin WordChars),
      long |-> Len(u) > 3,
      unsure |-> Len(u) < 10 /\ TestAny(u, {"i have", "it is"}),
      year |-> /\ \/ Len(u) = 4 /\ SubSeq(u, 1, 2) \in {"19", "20"} /\ Run(u, 3, Digits) = 2
                  \/ At(Lower(u), 1, "nineteen") \/ At(Lower(u), 1, "twenty")
               /\ Len(Tokens(u, 1)) < 4]]

\* a call of part_000 when its socket is connected: ctx holds ctx.state and
\* ctx.data.phone, replies the reply of every message id (its line and
\* where speakResponse is suspended), contactTimer and messageTimer whether
\* the timer is pending, hangups the message ids of the pending close
\* timers, reports and saves the calls of sendSms after generateReport and
\* of saveToSupabase
Router ==
  [ctx |-> [state |-> "greeting", phone |-> ""], speaking |-> FALSE, currentMsgId |-> 0,
   wsOpen |-> TRUE, streamSid |-> "", replies |-> << >>, contactTimer |-> FALSE,
   messageTimer |-> FALSE, hangups |-> {}, reports |-> 0, saves |-> 0, finals |-> 0,
   vocab |-> RouterHeard]

\* no helper is under test
Helper == [fn |-> "none", arg |-> "", out |-> << >>]

NoArrival == [midTurn |-> FALSE, speaking |-> FALSE, superseded |-> ""]

Timer(kind, left) == [kind |-> kind, left |-> left]

Session(v) ==
  [ws |-> "open", dgOpen |-> TRUE, streamSid |-> "", greeted |-> FALSE,
   transferred |-> FALSE, isSpeaking |-> FALSE, speakUntilTs |-> 0, processing |-> FALSE,
   pendingFinal |-> "", lastBotQuestionAt |-> GraceMs, state |-> InitState,
   timers |-> << >>, pc |-> "idle", branch |-> "plain", text |-> "",
   saying |-> [who \in {"start", "turn"} |-> NotSaying], startPc |-> "none",
   stopPc |-> "none", leadCalls |-> 0, sent |-> {}, asked |-> {},
   lastQ |-> "", corrected |-> FALSE, latestFinal |-> "", arrival |-> NoArrival,
   turnArrival |-> NoArrival, stale |-> FALSE, overlap |-> FALSE, finals |-> 0,
   vocab |-> v, logged |-> << >>, outcomes |-> << >>, sinceSpoke |-> GraceMs]


StartSession(m) ==
  /\ ws = m.ws /\ dgOpen = m.dgOpen /\ streamSid = m.streamSid /\ greeted = m.greeted
  /\ transferred = m.transferred /\ isSpeaking = m.isSpeaking
  /\ speakUntilTs = m.speakUntilTs /\ processing = m.processing
  /\ pendingFinal = m.pendingFinal /\ lastBotQuestionAt = m.lastBotQuestionAt
  /\ state = m.state /\ timers = m.timers /\ pc = m.pc /\ branch = m.branch
  /\ text = m.text /\ saying = m.saying /\ startPc = m.startPc /\ stopPc = m.stopPc
  /\ leadCalls = m.leadCalls /\ sent = m.sent
  /\ asked = m.asked /\ lastQ = m.lastQ /\ corrected = m.corrected
  /\ latestFinal = m.latestFinal /\ arrival = m.arrival /\ turnArrival = m.turnArrival
  /\ stale = m.stale /\ overlap = m.overlap /\ finals = m.finals /\ vocab = m.vocab
  /\ logged = m.logged /\ outcomes = m.outcomes /\ sinceSpoke = m.sinceSpoke
  /\ rows = << >> /\ calls = [w \in Callers |-> "none"]
  /\ lastFinalText = "" /\ lastFinalAt = DuplicateMs
  /\ pendingFinalText = "" /\ finalDebounceTimer = -1
  /\ heard = << >> /\ dispatched = << >>

\* the state in which a call begins
Start(m) == StartSession(m) /\ intake = Intake /\ hangup = Hangup /\ helper = Helper /\ router = Router

\* one step of the session: F applied to the session as it is
Step(F(_)) == \E c \in {Cur} : \E m \in {F(c)} : Commit(m)

\* --- say() and speakOverStream ---

\* the kinds of text that ask for a slot or for the confirmation
Questions == {"issue", "followup", "car", "name", "zip", "confirm"}

\* say() up to its await: nothing at all when the socket is not open
Say(m, who, txt, kind) ==
  IF m.ws # "open" \/ m.streamSid = "" THEN m
  ELSE [m EXCEPT !.isSpeaking = TRUE,
                 !.speakUntilTs = estimateSpeakMs(txt),
                 !.lastBotQuestionAt = 0,
                 !.sinceSpoke = 0,
                 !.saying[who] = [pc |-> "fetch", ms |-> estimateSpeakMs(txt), attempt |-> 0],
                 !.asked = @ \cup ({kind} \cap Questions),
                 !.lastQ = kind]

\* Said where a failure leaves speakUntilTs as it is
SaidKeepsWindow(m, who, ok) ==
  [m EXCEPT !.logged = IF ok THEN @ ELSE Append(@, "speech"),
            !.timers = Append(@, Timer("release", m.saying[who].ms + ReleaseBufferMs)),
            !.saying[who] = NotSaying]

\* say() after speakOverStream has returned ok
Said(m, who, ok) ==
  [m EXCEPT !.speakUntilTs = IF ok THEN @ ELSE FailedSpeakMs,
            !.sinceSpoke = IF ok THEN @ ELSE 0,
            !.logged = IF ok THEN @ ELSE Append(@, "speech"),
            !.timers = Append(@, Timer("release", m.saying[who].ms + ReleaseBufferMs)),
            !.saying[who] = NotSaying]

\* the finally block of drainPendingFinal
Finally(m) ==
  [m EXCEPT !.processing = FALSE,
            !.pc = "idle",
            !.text = "",
            !.timers = IF m.pendingFinal # "" /\ ~m.transferred
                       THEN Append(@, Timer("drain", DrainDelayMs)) ELSE @]

\* drainPendingFinal after an awaited say() has returned
AfterSay(m) ==
  IF m.branch = "esc" THEN [m EXCEPT !.pc = "transfer"] ELSE Finally(m)

\* await say(txt) inside drainPendingFinal, on the path b
TurnSay(m, b, txt, kind) ==
  Then(Say([m EXCEPT !.branch = b], "turn", txt, kind), LAMBDA m1 :
    IF m1.saying["turn"].pc = "none" THEN AfterSay(m1) ELSE [m1 EXCEPT !.pc = "say"])

\* the handler that called say() goes on after it
Resume(m, who) ==
  IF who = "start" THEN [m EXCEPT !.startPc = "done"] ELSE AfterSay(m)

\* --- drainPendingFinal up to its first await ---

\* upsertCallOutcome is called with a patch of that outcome
Upsert(m, outcome) == [m EXCEPT !.outcomes = Append(@, outcome)]

\* the outcome of the patch written when the call ends
Disposition(m, unconfirmed) ==
  IF m.state.confirmed THEN "completed"
  ELSE IF m.transferred THEN "transferred" ELSE unconfirmed

\* processing = true; text = pendingFinal; pendingFinal = null
Taken(m) ==
  [m EXCEPT !.processing = TRUE,
            !.pendingFinal = "",
            !.text = m.pendingFinal,
            !.stale = @ \/ m.pendingFinal # m.latestFinal,
            !.latestFinal = "",
            !.turnArrival = m.arrival,
            !.arrival = NoArrival]

\* Turn where the request for a human is looked at after the policy has run
TurnPolicyFirst(m, h) ==
  Then(Decide(m.state, h), LAMBDA d :
    IF h.human
    THEN Upsert([m EXCEPT !.state = d.state, !.transferred = TRUE, !.pc = "upsert", !.branch = "esc"],
                "transfer_requested")
    ELSE CASE d.act = "say" ->
                TurnSay([m EXCEPT !.state = d.state, !.corrected = @ \/ d.kind = "correct"],
                        "plain", d.say, d.kind)
           [] d.act = "yes" ->
                Upsert([m EXCEPT !.state = d.state, !.pc = "upsert", !.branch = "yes"], "confirmed")
           [] d.act = "gpt" -> [m EXCEPT !.pc = "gpt", !.branch = "plain"])

\* the turn for the utterance h, the request for a human first
Turn(m, h) ==
  IF h.human
  THEN Upsert([m EXCEPT !.transferred = TRUE, !.pc = "upsert", !.branch = "esc"],
              "transfer_requested")
  ELSE Then(Decide(m.state, h), LAMBDA d :
         CASE d.act = "say" ->
                TurnSay([m EXCEPT !.state = d.state, !.corrected = @ \/ d.kind = "correct"],
                        "plain", d.say, d.kind)
           [] d.act = "yes" ->
                Upsert([m EXCEPT !.state = d.state, !.pc = "upsert", !.branch = "yes"], "confirmed")
           [] d.act = "gpt" -> [m EXCEPT !.pc = "gpt", !.branch = "plain"])

Drain(m) ==
  IF m.pendingFinal = "" THEN m
  ELSE IF m.pc # "idle" THEN [m EXCEPT !.overlap = TRUE]
  ELSE Then(Taken(m), LAMBDA m0 : Turn(m0, m.vocab[m0.text]))

\* --- the Deepgram message handler, for a final transcript u ---

\* the handler returns at once
Ignores(m) == m.transferred

\* Defers without the processing guard
DefersWhileSpeaking(m) == m.isSpeaking /\ m.speakUntilTs > 0

\* the handler leaves the transcript pending
Defers(m) == m.processing \/ (m.isSpeaking /\ m.speakUntilTs > 0)

\* Pend where a transcript already pending is kept
PendFirst(m, u) ==
  [m EXCEPT !.pendingFinal = IF @ = "" THEN u ELSE @,
            !.latestFinal = u,
            !.sent = {},
            !.arrival = [midTurn |-> m.processing, speaking |-> m.isSpeaking,
                         superseded |-> m.pendingFinal]]

\* pendingFinal = text
Pend(m, u) ==
  [m EXCEPT !.pendingFinal = u,
            !.latestFinal = u,
            !.sent = {},
            !.arrival = [midTurn |-> m.processing, speaking |-> m.isSpeaking,
                         superseded |-> m.pendingFinal]]

OnFinal(m, u) ==
  IF Ignores(m) THEN m
  ELSE Then(Pend(m, u), LAMBDA m1 :
    IF Defers(m1) THEN m1
    ELSE IF m1.lastBotQuestionAt < GraceMs
    THEN [m1 EXCEPT !.timers = Append(@, Timer("grace", GraceMs - m1.lastBotQuestionAt))]
    ELSE Drain(m1))

FinalTranscript ==
  \E u \in DOMAIN vocab :
    /\ dgOpen /\ streamSid # ""
    /\ finals < MaxFinals
    /\ Step(LAMBDA c : OnFinal([c EXCEPT !.finals = @ + 1], u))

\* --- timers ---

Due == {i \in 1..Len(timers) : timers[i].left = 0}

Fires(kind) == Due # {} /\ timers[Min(Due)].kind = kind

\* the session without its first due timer
Pop(m) ==
  Then(Min({i \in 1..Len(m.timers) : m.timers[i].left = 0}), LAMBDA i :
    [m EXCEPT !.timers = SubSeq(@, 1, i - 1) \o SubSeq(@, i + 1, Len(@))])

\* the callback of the grace timer set by the handler
GraceRuns(m) == ~m.processing /\ ~m.transferred /\ m.pendingFinal # ""

\* the callback of the timer set by the finally block
DrainRuns(m) == ~m.processing /\ ~(m.isSpeaking /\ m.speakUntilTs > 0)

GraceTimer ==
  /\ Fires("grace")
  /\ Step(LAMBDA c : IF GraceRuns(c) THEN Drain(Pop(c)) ELSE Pop(c))

DrainTimer ==
  /\ Fires("drain")
  /\ Step(LAMBDA c : IF DrainRuns(c) THEN Drain(Pop(c)) ELSE Pop(c))

ReleaseTimer ==
  /\ Fires("release")
  /\ Step(LAMBDA c : [Pop(c) EXCEPT !.isSpeaking = FALSE])

RetryTimer ==
  \E who \in {"start", "turn"} :
    /\ Fires(who)
    /\ Step(LAMBDA c : [Pop(c) EXCEPT !.saying[who].pc = "fetch", !.saying[who].attempt = @ + 1])

\* time passes, up to the next instant at which something is due
Countdowns ==
  ({timers[i].left : i \in 1..Len(timers)}
     \cup {speakUntilTs, GraceMs - lastBotQuestionAt}
     \cup (IF speakUntilTs = 0 THEN {GraceMs - sinceSpoke} ELSE {})) \ {0}

Tick ==
  /\ Due = {}
  /\ Countdowns # {}
  /\ \E d \in {Min(Countdowns)} :
       Step(LAMBDA c :
         [c EXCEPT !.timers = [i \in 1..Len(c.timers) |-> Timer(c.timers[i].kind, c.timers[i].left - d)],
                   !.speakUntilTs = IF @ = 0 THEN 0 ELSE @ - d,
                   !.sinceSpoke = IF c.speakUntilTs > 0 THEN 0
                                  ELSE IF @ + d > GraceMs THEN GraceMs ELSE @ + d,
                   !.lastBotQuestionAt = IF @ = GraceMs THEN @ ELSE @ + d])

\* --- speakOverStream: the answers of the text-to-speech request ---

\* the audio has come: it is sent if the socket is still open
Audio(m, who) ==
  IF m.ws = "open" /\ m.streamSid # ""
  THEN Said([m EXCEPT !.sent = @ \cup {"media"}], who, TRUE)
  ELSE Said(m, who, FALSE)

TtsAudio ==
  \E who \in {"start", "turn"} :
    /\ saying[who].pc = "fetch"
    /\ Step(LAMBDA c : Then(Audio(c, who), LAMBDA m : Resume(m, who)))

\* a response that is not ok, an exception, or the abort after 10 s
TtsFailed ==
  \E who \in {"start", "turn"} :
    /\ saying[who].pc = "fetch"
    /\ Step(LAMBDA c :
         IF c.saying[who].attempt < retries
         THEN [c EXCEPT !.saying[who].pc = "backoff",
                        !.timers = Append(@, Timer(who, RetryBackoffMs))]
         ELSE Then(Said(c, who, FALSE), LAMBDA m : Resume(m, who)))

\* --- drainPendingFinal: what it awaits besides say() ---

GlitchText ==
  "Sorry - I had a quick technical glitch. Please text us your ZIP and car issue, and we'll follow up right away."

\* an exception inside the try block: the catch block speaks, then finally
Caught(m) == TurnSay(m, "catch", GlitchText, "glitch")

\* Upserted where a write that has just failed is made again
UpsertedRetries(m) ==
  IF m.logged # << >> /\ m.logged[Len(m.logged)] = "outcome" /\ Len(m.outcomes) < 3
  THEN Upsert(m, m.outcomes[Len(m.outcomes)])
  ELSE IF m.branch = "esc"
  THEN TurnSay(m, "esc", "Got it - connecting you to an operator now.", "ack")
  ELSE IF ~m.state.leadCreated
  THEN [m EXCEPT !.pc = "lead", !.leadCalls = @ + 1]
  ELSE TurnSay(m, "plain", ClosingText(m.state), "closing")

\* drainPendingFinal after the awaited upsertCallOutcome
Upserted(m) ==
  IF m.branch = "esc"
  THEN TurnSay(m, "esc", "Got it - connecting you to an operator now.", "ack")
  ELSE IF ~m.state.leadCreated
  THEN [m EXCEPT !.pc = "lead", !.leadCalls = @ + 1]
  ELSE TurnSay(m, "plain", ClosingText(m.state), "closing")

\* upsertCallOutcome has returned (it never throws)
TurnUpserted ==
  /\ pc = "upsert"
  /\ Step(LAMBDA c : Upserted(c))

\* upsertCallOutcome has logged an error of the sink, or an exception, and returned
TurnUpsertFailed ==
  /\ pc = "upsert"
  /\ Step(LAMBDA c : Upserted([c EXCEPT !.logged = Append(@, "outcome")]))

\* createLeadFromCall has returned, ok or not (it never throws)
LeadReturned ==
  \E ok \in BOOLEAN :
    /\ pc = "lead"
    /\ Step(LAMBDA c :
         Then([c EXCEPT !.state.leadCreated = @ \/ ok,
                        !.logged = IF ok THEN @ ELSE Append(@, "lead")], LAMBDA m :
           TurnSay(m, "plain", ClosingText(m.state), "closing")))

\* transferCallToHuman has returned (done, or skipped for want of
\* ADMIN_ESCALATION_PHONE), or the Twilio call has thrown
TransferReturned ==
  \E ok \in BOOLEAN :
    /\ pc = "transfer"
    /\ Step(LAMBDA c :
         IF ok
         THEN Finally([c EXCEPT !.dgOpen = FALSE, !.ws = IF @ = "open" THEN "closing" ELSE @])
         ELSE Caught(c))

\* what the backup model says is any text: one stands for them
GptText == "Is there anything else I can help you with today?"

TechIssueText ==
  "I'm having a quick technical issue. Please text us your ZIP and what's going on, and we'll follow up right away."

GptReturned ==
  \E r \in {"text", "empty", "throw"} :
    /\ pc = "gpt"
    /\ Step(LAMBDA c :
         CASE r = "text" -> TurnSay(c, "plain", GptText, "gpt")
           [] r = "empty" -> TurnSay(c, "plain", TechIssueText, "tech")
           [] r = "throw" -> Caught(c))

\* --- the Twilio socket ---

StartEvent ==
  /\ ws = "open" /\ startPc = "none"
  /\ Step(LAMBDA c : Upsert([c EXCEPT !.streamSid = "MZ1", !.startPc = "upsert"], "in_progress"))

StartUpserted ==
  /\ startPc = "upsert"
  /\ Step(LAMBDA c :
       Then(IF c.greeted THEN c
            ELSE Say([c EXCEPT !.greeted = TRUE], "start", VOICE_GREETING, "greeting"),
            LAMBDA m : [m EXCEPT !.startPc = IF m.saying["start"].pc = "none"
                                             THEN "done" ELSE "say"]))

StopEvent ==
  /\ ws = "open" /\ streamSid # "" /\ stopPc = "none"
  /\ Step(LAMBDA c : Upsert([c EXCEPT !.stopPc = "upsert"], Disposition(c, "ended_unconfirmed")))

StopUpserted ==
  /\ stopPc = "upsert"
  /\ Step(LAMBDA c : [c EXCEPT !.dgOpen = FALSE, !.stopPc = "done"])

\* the close event, after ws.close() or when the caller hangs up
CloseEvent ==
  /\ ws # "closed"
  /\ Step(LAMBDA c :
       Upsert([c EXCEPT !.ws = "closed", !.dgOpen = FALSE], Disposition(c, "socket_closed")))

\* --- the specifications ---

\* what the callers of the two specifications may say
Utterances ==
  {"my brakes are grinding", "it happens all the time", "2015 Honda Civic", "Tom",
   "02321", "90210", "yes", "no", "zip", "name", "the car", "the issue",
   "I want to talk to a person"}

Replies == {"my brakes are grinding", "yes", "I want to talk to a person"}

\* a caller who answers the five questions, up to the confirmation question
Script ==
  <<"my brakes are grinding", "it happens all the time", "2015 Honda Civic", "Tom", "02321">>

RECURSIVE After(_, _)
After(st, said) ==
  IF said = << >> THEN st
  ELSE Then(Decide(st, Heard(Head(said))).state, LAMBDA s1 : After(s1, Tail(said)))

\* the session once that caller has been asked to confirm and all is quiet again
AtConfirm(v) ==
  [Session(v) EXCEPT !.streamSid = "MZ1", !.greeted = TRUE, !.startPc = "done",
                     !.state = After(InitState, Script),
                     !.asked = {"followup", "car", "name", "zip", "confirm"},
                     !.lastQ = "confirm", !.sent = {"media"},
                     !.outcomes = <<"in_progress">>]

\* the same session once that caller has answered no and was asked what to correct
AtChoice(v) ==
  [AtConfirm(v) EXCEPT !.state = After(InitState, Append(Script, "no")),
                       !.lastQ = "correct", !.corrected = TRUE]

\* Spec: the turn-taking of one session, the caller speaking at any moment,
\* from the connection, from the confirmation question or from the
\* correction question on.
Init ==
  \E v \in {[u \in Replies |-> Heard(u)]} :
    \E m \in {Session(v), AtConfirm(v), AtChoice(v)} : Start(m)

Next ==
  \/ StartEvent \/ StartUpserted
  \/ FinalTranscript
  \/ GraceTimer \/ DrainTimer \/ ReleaseTimer \/ Tick
  \/ TtsAudio
  \/ TurnUpserted \/ LeadReturned \/ TransferReturned \/ GptReturned

Spec == Init /\ [][Next]_vars

\* SpecFair: Spec where the timers fire, time passes and the services answer;
\* nothing obliges the caller to speak.
Fairness ==
  /\ WF_vars(GraceTimer) /\ WF_vars(DrainTimer) /\ WF_vars(ReleaseTimer) /\ WF_vars(Tick)
  /\ WF_vars(StartEvent) /\ WF_vars(StartUpserted) /\ WF_vars(TtsAudio)
  /\ WF_vars(TurnUpserted) /\ WF_vars(LeadReturned) /\ WF_vars(TransferReturned)
  /\ WF_vars(GptReturned)

SpecFair == Spec /\ Fairness


\* SpecDialogue: the whole dialogue, with a caller who waits for the bot to
\* have finished before replying (any reply of Utterances, any number of
\* them) or before hanging up, and who says nothing after hanging up.
Quiet ==
  /\ pc = "idle" /\ startPc = "done" /\ ~isSpeaking
  /\ timers = << >> /\ lastBotQuestionAt = GraceMs /\ sinceSpoke = GraceMs

CallerReplies ==
  \E u \in DOMAIN vocab :
    /\ dgOpen /\ streamSid # "" /\ ~transferred
    /\ Quiet /\ ws = "open" /\ stopPc = "none"
    /\ Step(LAMBDA c : OnFinal(c, u))

InitDialogue ==
  \E m \in {Session([u \in Utterances |-> Heard(u)])} : Start(m)

NextDialogue ==
  \/ StartEvent \/ StartUpserted
  \/ CallerReplies
  \/ (Quiet /\ StopEvent) \/ StopUpserted \/ (Quiet /\ CloseEvent)
  \/ ReleaseTimer \/ Tick
  \/ TtsAudio
  \/ TurnUpserted \/ LeadReturned \/ TransferReturned \/ GptReturned

SpecDialogue == InitDialogue /\ [][NextDialogue]_vars

\* SpecFaults: the session with the starting points and the replies of Spec,
\* where the text-to-speech request and the outcome write of a turn may fail,
\* and a caller who waits for the bot to have finished before speaking.
CallerSpeaks == Quiet /\ FinalTranscript

NextFaults ==
  \/ StartEvent \/ StartUpserted
  \/ CallerSpeaks
  \/ ReleaseTimer \/ RetryTimer \/ Tick
  \/ TtsAudio \/ TtsFailed
  \/ TurnUpserted \/ TurnUpsertFailed
  \/ LeadReturned \/ TransferReturned \/ GptReturned

SpecFaults == Init /\ [][NextFaults]_vars

\* ------------------------------------------------------------------------
\* upsertCallOutcome and the table call_outcomes
\* ------------------------------------------------------------------------

\* The table has no unique constraint on call_sid. A call of upsertCallOutcome
\* is suspended at its select ("select"), then at its update or at its insert.

\* the outcome of the patch of each handler, nothing having been confirmed
Patch ==
  [start |-> "in_progress", stop |-> "ended_unconfirmed", close |-> "socket_closed"]

\* upsertCallOutcome is called: the select is sent. The start event is the
\* first thing a session receives.
SinkCall ==
  \E w \in Callers :
    /\ calls[w] = "none"
    /\ w # "start" => calls["start"] # "none"
    /\ calls' = [calls EXCEPT ![w] = "select"]
    /\ UNCHANGED <<session, rows, debouncer, variants>>

\* the call after its select: maybeSingle() gives the row when there is
\* exactly one, and no data otherwise (no row, several rows, or an error)
Selected(found) == IF found THEN "update" ELSE "insert"

\* the select has answered, or has thrown
SinkSelected ==
  \E w \in Callers : \E r \in {"data", "error", "throw"} :
    /\ calls[w] = "select"
    /\ calls' = [calls EXCEPT ![w] = IF r = "throw" THEN "done"
                                     ELSE Selected(r = "data" /\ Len(rows) = 1)]
    /\ UNCHANGED <<session, rows, debouncer, variants>>

\* the table after the update or the insert of the caller w
Written(t, w, op) ==
  IF op = "update" THEN [i \in 1..Len(t) |-> Patch[w]] ELSE Append(t, Patch[w])

\* the update or the insert has answered, with or without an error
SinkWritten ==
  \E w \in Callers : \E ok \in BOOLEAN :
    /\ calls[w] \in {"update", "insert"}
    /\ rows' = IF ok THEN Written(rows, w, calls[w]) ELSE rows
    /\ calls' = [calls EXCEPT ![w] = "done"]
    /\ UNCHANGED <<session, debouncer, variants>>

\* SpecSink: the calls of upsertCallOutcome one session makes, each handler
\* once, in any interleaving after the start event.
InitSink == \E m \in {Session([u \in Replies |-> Heard(u)])} : Start(m)

NextSink == SinkCall \/ SinkSelected \/ SinkWritten

SpecSink == InitSink /\ [][NextSink]_vars

\* ------------------------------------------------------------------------
\* The final-transcript debouncer of server.js
\* ------------------------------------------------------------------------

\* how many final transcripts Deepgram delivers at most
MaxHeard == 3

\* what alt.transcript may be
Transcripts == {"Yes", " yes", "no"}

\* the times that may pass between two events, in ms
Delays == {450, 1050}

\* String(text).trim().toLowerCase()
Normalized(t) == Lower(Trim(t))

\* isDuplicateFinal comparing the text as it came
isDuplicateFinalExact(t) ==
  t # "" /\ t = lastFinalText /\ lastFinalAt < DuplicateMs

\* what isDuplicateFinal returns
isDuplicateFinal(t) ==
  Normalized(t) # "" /\ Normalized(t) = lastFinalText /\ lastFinalAt < DuplicateMs

\* the message handler of Deepgram, for a final result with a transcript
FinalReceived ==
  \E raw \in Transcripts : \E transcript \in {Trim(raw)} : \E dup \in {isDuplicateFinal(transcript)} :
    /\ Len(heard) < MaxHeard
    /\ transcript # ""
    /\ heard' = Append(heard, [text |-> transcript, ago |-> 0, accepted |-> ~dup])
    /\ lastFinalText' = IF dup THEN lastFinalText ELSE Normalized(transcript)
    /\ lastFinalAt' = IF dup THEN lastFinalAt ELSE 0
    /\ pendingFinalText' = IF dup THEN pendingFinalText ELSE transcript
    /\ finalDebounceTimer' = IF dup THEN finalDebounceTimer ELSE DebounceMs
    /\ UNCHANGED <<session, sink, variants, dispatched>>

\* the callback of finalDebounceTimer; isSpeaking is whatever the session
\* has made it by then
DebounceTimer ==
  \E speaking \in BOOLEAN :
    /\ finalDebounceTimer = 0
    /\ finalDebounceTimer' = -1
    /\ pendingFinalText' = IF speaking THEN pendingFinalText ELSE ""
    /\ dispatched' = IF speaking \/ pendingFinalText = "" THEN dispatched
                      ELSE Append(dispatched, pendingFinalText)
    /\ UNCHANGED <<session, sink, variants, lastFinalText, lastFinalAt, heard>>

\* time passes, not beyond the instant finalDebounceTimer is due
Elapse ==
  \E d \in Delays :
    /\ finalDebounceTimer = -1 \/ d <= finalDebounceTimer
    /\ finalDebounceTimer' = IF finalDebounceTimer = -1 THEN -1 ELSE finalDebounceTimer - d
    /\ lastFinalAt' = IF lastFinalAt + d > DuplicateMs THEN DuplicateMs ELSE lastFinalAt + d
    /\ heard' = [i \in 1..Len(heard) |->
                   [heard[i] EXCEPT !.ago = IF @ + d > DuplicateMs THEN DuplicateMs ELSE @ + d]]
    /\ UNCHANGED <<session, sink, variants, lastFinalText, pendingFinalText, dispatched>>

\* SpecDebounce: the final transcripts of one call of server.js, at any
\* distance of one another.
InitDebounce == \E m \in {Session([u \in Replies |-> Heard(u)])} : Start(m)

NextDebounce == FinalReceived \/ DebounceTimer \/ Elapse

SpecDebounce == InitDebounce /\ [][NextDebounce]_vars

\* ------------------------------------------------------------------------
\* Properties of the turn-taking (Spec, SpecFair)
\* ------------------------------------------------------------------------

\* C1: createLeadFromCall is invoked at most once in a session, whatever the
\* caller says and whenever, a yes repeated during the confirmation turn or
\* after a failed insert included.
C1_LeadAtMostOnce == leadCalls <= 1

\* a second yes is in its turn after the insert of the first has failed
C1_YesAfterFailedInsert ==
  /\ leadCalls = 1 /\ ~state.leadCreated /\ state.confirmed
  /\ text = "yes" /\ pc = "gpt"

C8_PendingIsDrained ==
  \A n \in 1..MaxFinals :
    (finals = n /\ pendingFinal # "" /\ arrival.midTurn)
      ~> (finals # n \/ pendingFinal = "" \/ transferred)

\* the transcript is left pending and no timer is left to drain it
C8_Stranded ==
  /\ pendingFinal # "" /\ arrival.midTurn /\ ~transferred
  /\ pc = "idle" /\ ~isSpeaking /\ timers = << >>

\* C9: when a turn runs for a final transcript that came while isSpeaking
\* was true, a clear event has been sent to Twilio since it came.
C9_ClearBeforeTurn == (pc # "idle" /\ turnArrival.speaking) => "clear" \in sent

\* a turn speaks for a transcript that came while isSpeaking was true, and
\* only audio was sent since
C9_TurnWithoutClear ==
  pc = "say" /\ turnArrival.speaking /\ sent = {"media"}

\* C10: the turn of a request for a human sets transferred at once and leaves
\* the dialogue state as it was; once transferred, the dialogue state is
\* not written, no question is asked, no final transcript is kept and no
\* turn starts.
C10_HumanFirst ==
  [][/\ (text = "" /\ text' # "" /\ vocab[text'].human)
          => (transferred' /\ state' = state /\ asked' = asked /\ branch' = "esc")
     /\ transferred
          => (/\ transferred' /\ state' = state /\ asked' = asked
              /\ pendingFinal' = pendingFinal /\ text' \in {text, ""})]_vars

\* the caller asked for a human instead of naming what to correct, and the
\* transfer is done
C10_TransferredAtChoice ==
  transferred /\ state.awaitingCorrectionChoice /\ pc = "idle" /\ ws = "closing"

\* ------------------------------------------------------------------------
\* Properties of the dialogue (SpecDialogue)
\* ------------------------------------------------------------------------

\* C2: createLeadFromCall is invoked only in the turn of an utterance that
\* is a yes and no request for a human, begun while the confirmation was
\* awaited and the last thing said was the confirmation question or its
\* repeat; no other turn and no event of the socket invokes it.
C2_LeadOnlyOnYes ==
  [][/\ (pc = "idle" /\ pc' = "upsert" /\ branch' = "yes")
          => /\ state.awaitingConfirmation /\ ~state.confirmed
             /\ vocab[text'].yes /\ ~vocab[text'].human
             /\ lastQ \in {"confirm", "reconfirm"}
     /\ leadCalls' # leadCalls
          => /\ pc = "upsert" /\ branch = "yes" /\ text' = text
             /\ state.confirmed /\ leadCalls' = leadCalls + 1]_vars

\* the lead is being created for a caller who had first answered no
C2_LeadAfterCorrection == leadCalls = 1 /\ corrected /\ pc = "lead" /\ text = "yes"

\* C3 as stated: the value of a filled slot changes only in the turn of the
\* correction choice that names it.
C3_FilledSlotKept ==
  [][\A f \in Slots :
       (state[f] # "" /\ state'[f] # state[f])
         => (state'.correctingField = FieldOf[f] /\ state'[f] = "")]_vars

\* C3 amended: the value of a filled slot changes only in the turn of the
\* correction choice that names it, which empties it, or, for issueText,
\* in the one turn that appends the awaited answer to the follow-up question.
C3_FilledSlotKeptButFollowup ==
  [][\A f \in Slots :
       (state[f] # "" /\ state'[f] # state[f])
         => \/ state'.correctingField = FieldOf[f] /\ state'[f] = ""
            \/ /\ f = "issueText"
               /\ state.awaitingFollowupResponse /\ ~state'.awaitingFollowupResponse
               /\ state'[f] = state[f] \o ". " \o text']_vars

\* the caller gives another ZIP at the confirmation: the ZIP stays
C3_OtherZipIgnored ==
  state.zip = "02321" /\ text = "90210" /\ pc = "say" /\ lastQ = "reconfirm"

\* C4: correctingField is null or one of zip, name, car, issue; while it
\* names a slot that slot is empty, no other slot changes, and it goes back
\* to null exactly in the turn that fills the slot again.
C4_OneSlotCorrected ==
  [][/\ state'.correctingField \in {"null", "zip", "name", "car", "issue"}
     /\ \A st \in {state, state'} :
          ~\E f \in {"issueText", "carMakeModel", "name", "zip"} :
              st.correctingField = FieldOf[f] /\ st[f] # ""
     /\ state.correctingField # "null"
          => /\ \A f \in Slots : state'[f] # state[f] => FieldOf[f] = state.correctingField
             /\ state'.correctingField \in {state.correctingField, "null"}
             /\ state'.correctingField = "null"
                  <=> \E f \in {"issueText", "carMakeModel", "name", "zip"} :
                        FieldOf[f] = state.correctingField /\ state'[f] # ""]_vars

\* the car was corrected and the confirmation is asked again
C4_CarCorrected ==
  /\ corrected /\ state.correctingField = "null" /\ state.carMakeModel # ""
  /\ lastQ = "confirm" /\ pc = "say"
  /\ text = "2015 Honda Civic"

C11_CorrectionRoundTrip ==
  [][/\ (text = "" /\ text' = "no" /\ state.awaitingConfirmation /\ ~state.confirmed)
          => /\ state'.awaitingCorrectionChoice /\ ~state'.awaitingConfirmation
             /\ \A f \in Slots : state'[f] = state[f]
     /\ (text = "" /\ text' = "zip" /\ state.awaitingCorrectionChoice)
          => /\ state'.zip = "" /\ state'.currentStep = "zip"
             /\ state'.correctingField = "zip" /\ ~state'.awaitingCorrectionChoice
             /\ lastQ' = "zip"
             /\ \A f \in Slots \ {"zip"} : state'[f] = state[f]
     /\ (text = "" /\ text' = "02321" /\ state.correctingField = "zip")
          => /\ state'.zip = "02321" /\ state'.correctingField = "null"
             /\ state'.awaitingConfirmation /\ state'.currentStep = "confirm"
             /\ lastQ' = "confirm" /\ pc' = "say"
             /\ \A f \in Slots \ {"zip"} : state'[f] = state[f]]_vars

\* the ZIP was emptied by a correction, given again, and the confirmation is asked again
C11_ZipCorrected ==
  /\ corrected /\ text = "02321" /\ state.zip = "02321" /\ state.awaitingConfirmation
  /\ lastQ = "confirm" /\ pc = "say" /\ "zip" \in asked

\* C12: once the caller has confirmed and the closing line was said, the
\* server ends the call (the socket leaves the open state).
C12_CallTerminated ==
  (state.confirmed /\ lastQ = "closing") ~> (ws # "open")

\* the closing line was said, every timer has fired, and the socket is
\* still open with nothing left that would close it
C12_OpenAfterClosing ==
  /\ state.confirmed /\ state.leadCreated /\ lastQ = "closing"
  /\ pc = "idle" /\ ~isSpeaking /\ timers = << >> /\ ws = "open" /\ dgOpen

\* C13: once the session is confirmed or transferred, no slot and no
\* control flag of the dialogue state changes (leadCreated, which the
\* confirmation turn itself sets, apart), no further question is asked, and
\* a confirmed session is not transferred.
C13_Terminal ==
  [][(state.confirmed \/ transferred)
       => /\ \A f \in DOMAIN state \ {"leadCreated"} : state'[f] = state[f]
          /\ asked' = asked
          /\ transferred' = transferred]_vars

\* a confirmed session has been transferred to a human
C13_ConfirmedThenTransferred ==
  state.confirmed /\ transferred /\ leadCalls = 1 /\ text = "I want to talk to a person"

\* C14: a speech failure never blocks the turn loop. A failed request is
\* retried after RetryBackoffMs, at most `retries` times (3 attempts in all);
\* when the last attempt fails say() cuts the speaking window down to
\* FailedSpeakMs and returns, the handler that awaited it goes on (a turn
\* ends with processing reset, unless it is the escalation, which goes on to
\* the transfer), and a final transcript that comes after such a failure is
\* given a turn.
C14_SpeechFailureDoesNotBlock ==
  [][/\ \A who \in {"start", "turn"} :
         /\ (saying[who].pc = "fetch" /\ saying'[who].pc = "backoff")
              => /\ saying[who].attempt < retries
                 /\ timers' = Append(timers, Timer(who, RetryBackoffMs))
                 /\ pc' = pc /\ processing' = processing
         /\ (saying[who].pc = "backoff" /\ saying'[who].pc = "fetch")
              => /\ saying'[who].attempt = saying[who].attempt + 1
                 /\ saying'[who].attempt <= retries
         /\ (saying[who].pc = "fetch" /\ logged' = Append(logged, "speech"))
              => /\ saying[who].attempt = retries
                 /\ saying'[who] = NotSaying
                 /\ speakUntilTs' = FailedSpeakMs
                 /\ who = "start" => startPc' = "done"
                 /\ (who = "turn" /\ branch # "esc") => (pc' = "idle" /\ ~processing')
                 /\ (who = "turn" /\ branch = "esc") => pc' = "transfer"
     /\ (finals' = finals + 1 /\ logged # << >> /\ ~transferred /\ ws = "open")
          => (processing' /\ pc' # "idle" /\ text' # "")]_vars

\* C14 witness: after the speech of a turn has failed for good, the yes of
\* the caller is taken by the next turn
C14_TurnAfterGiveUp ==
  /\ logged = <<"speech">> /\ pc = "upsert" /\ branch = "yes" /\ text = "yes"
  /\ finals = 2 /\ speakUntilTs = 0

\* C15: a failure of the sink does not block the dialogue. When the outcome
\* write of the confirmation turn fails, the turn goes on to the lead insert
\* with confirmed set and writes no outcome again; when the lead insert
\* fails, the turn speaks the closing line with confirmed set and without a
\* lead; the turn that speaks the closing line after a failure ends with
\* processing reset; and neither the confirmation write nor the lead insert
\* is ever made a second time.
C15_SinkFailureDoesNotBlock ==
  [][/\ (pc = "upsert" /\ branch = "yes" /\ logged' = Append(logged, "outcome"))
          => /\ state'.confirmed /\ outcomes' = outcomes
             /\ ~state.leadCreated => (pc' = "lead" /\ leadCalls' = leadCalls + 1)
             /\ state.leadCreated => (pc' = "say" /\ lastQ' = "closing")
     /\ (pc = "lead" /\ logged' = Append(logged, "lead"))
          => /\ state'.confirmed /\ ~state'.leadCreated
             /\ pc' = "say" /\ lastQ' = "closing" /\ saying'["turn"].pc = "fetch"
             /\ leadCalls' = leadCalls /\ outcomes' = outcomes
     /\ (pc = "say" /\ lastQ = "closing" /\ logged # << >> /\ saying'["turn"].pc = "none")
          => (pc' = "idle" /\ ~processing' /\ state'.confirmed)
     /\ leadCalls' <= 1
     /\ Cardinality({i \in 1..Len(outcomes') : outcomes'[i] = "confirmed"}) <= 1]_vars

\* C15 witness: the outcome write and the lead insert of the confirmation
\* turn have both failed, the closing line was sent and the turn is over
C15_ClosedAfterFailures ==
  /\ logged = <<"outcome", "lead">> /\ state.confirmed /\ ~state.leadCreated
  /\ lastQ = "closing" /\ "media" \in sent /\ pc = "idle" /\ ~processing
  /\ leadCalls = 1

\* C16: over one session at most two patches are handed to
\* upsertCallOutcome, the in-progress marker of the start and one final
\* disposition.
C16_AtMostTwoWrites == Len(outcomes) <= 2

\* C16 witness: a caller who hangs up without having said a word: the start,
\* the stop and the close handler have each written a patch
C16_ThreeWrites ==
  /\ outcomes = <<"in_progress", "ended_unconfirmed", "socket_closed">>
  /\ finals = 0 /\ text = "" /\ state = InitState /\ stopPc = "done" /\ ws = "closed"

\* C17: whatever the interleaving of the calls of upsertCallOutcome of one
\* call id, the table holds at most one row of that call id.
C17_AtMostOneRow == Len(rows) <= 1

\* C17 witness: the stop event came while the write of the start event was
\* still waiting for its select; both found no row and both have inserted one
C17_TwoRows ==
  /\ rows = <<"in_progress", "ended_unconfirmed">>
  /\ calls["start"] = "done" /\ calls["stop"] = "done" /\ calls["close"] = "none"

\* C18: once the call has ended (the stop handler has written, or the socket
\* has closed) the outcome written last is "completed" exactly when the
\* caller has confirmed; if not, it is "transferred" when the call was
\* escalated; if neither, it is "ended_unconfirmed" when a stop event was
\* received, and "socket_closed" only when the socket closed without one.
C18_DispositionReflectsEnd ==
  (stopPc = "done" \/ ws = "closed") =>
    \A last \in {outcomes[Len(outcomes)]} :
      /\ last = "completed" <=> state.confirmed
      /\ (~state.confirmed /\ transferred) => last = "transferred"
      /\ (~state.confirmed /\ ~transferred /\ stopPc = "done") => last = "ended_unconfirmed"
      /\ last = "socket_closed" => stopPc = "none"

\* C18 witness: the caller has described the problem and hung up; the stop
\* event was handled, then the socket closed and the close handler wrote
\* "socket_closed" over "ended_unconfirmed"
C18_ClosedAfterStop ==
  /\ stopPc = "done" /\ ws = "closed" /\ ~state.confirmed /\ ~transferred
  /\ state.issueText # "" /\ Len(outcomes) = 3
  /\ outcomes[2] = "ended_unconfirmed" /\ outcomes[3] = "socket_closed"

\* C19: a turn takes an utterance only when the most recent system
\* utterance has ended, at the instant speakUntilTs that say() has estimated
\* for it, and GraceMs have passed since.
C19_GraceAfterSpeech ==
  [][(text = "" /\ text' # "") => (speakUntilTs = 0 /\ sinceSpoke = GraceMs)]_vars

\* C19 witness: a turn has taken the yes of the caller and has not spoken
\* yet, nothing is being synthesized, and the last utterance of the system
\* ended less than GraceMs ago
C19_TurnWithinGrace ==
  /\ pc = "upsert" /\ branch = "yes" /\ text = "yes"
  /\ \A who \in {"start", "turn"} : saying[who] = NotSaying
  /\ speakUntilTs = 0 /\ sinceSpoke < GraceMs

\* C20 as stated: a final transcript is discarded exactly when, trimmed and
\* lower-cased, it equals the final transcript immediately before it and
\* comes less than DuplicateMs after it; a discarded one leaves no trace, an
\* accepted one is made the pending text and restarts the window.
C20_DuplicateOfPrevious ==
  [][Len(heard') = Len(heard) + 1 =>
       \A new \in {heard'[Len(heard')]} :
         /\ ~new.accepted <=>
              /\ heard # << >>
              /\ Normalized(new.text) = Normalized(heard[Len(heard)].text)
              /\ heard[Len(heard)].ago < DuplicateMs
         /\ ~new.accepted =>
              UNCHANGED <<lastFinalText, lastFinalAt, pendingFinalText, finalDebounceTimer, dispatched>>
         /\ new.accepted =>
              /\ pendingFinalText' = new.text /\ finalDebounceTimer' = DebounceMs
              /\ lastFinalText' = Normalized(new.text) /\ lastFinalAt' = 0]_vars

\* C20 amended: a final transcript is discarded exactly when, trimmed and
\* lower-cased, it equals the last final transcript that was accepted and
\* comes less than DuplicateMs after that one; a discarded one leaves no
\* trace and is not dispatched, an accepted one is made the pending text and
\* restarts the window.
C20_DuplicateOfAccepted ==
  [][/\ Len(heard') = Len(heard) + 1 =>
          \A new \in {heard'[Len(heard')]} : \A acc \in {{i \in 1..Len(heard) : heard[i].accepted}} :
            /\ ~new.accepted <=>
                 /\ acc # {}
                 /\ \A last \in {i \in acc : \A j \in acc : j <= i} :
                      /\ Normalized(new.text) = Normalized(heard[last].text)
                      /\ heard[last].ago < DuplicateMs
            /\ ~new.accepted =>
                 UNCHANGED <<lastFinalText, lastFinalAt, pendingFinalText, finalDebounceTimer, dispatched>>
            /\ new.accepted =>
                 /\ pendingFinalText' = new.text /\ finalDebounceTimer' = DebounceMs
                 /\ lastFinalText' = Normalized(new.text) /\ lastFinalAt' = 0
     /\ Len(dispatched') <= Cardinality({i \in 1..Len(heard') : heard'[i].accepted})]_vars

\* C20 witness: "Yes" was accepted, "yes" came 1050 ms later and was
\* discarded, "yes" came again 450 ms after that, 1500 ms after the accepted
\* one, and was accepted
C20_AcceptedAfterDuplicate ==
  /\ Len(heard) = 3
  /\ heard[1] = [text |-> "Yes", ago |-> DuplicateMs, accepted |-> TRUE]
  /\ heard[2] = [text |-> "yes", ago |-> 450, accepted |-> FALSE]
  /\ heard[3] = [text |-> "yes", ago |-> 0, accepted |-> TRUE]
  /\ pendingFinalText = "yes" /\ finalDebounceTimer = DebounceMs

\* C23: awaitingConfirmation is entered only in a turn that leaves every
\* required slot (issueText, carMakeModel, name, zip) filled, with the
\* session not confirmed, and that asks the confirmation question; whenever
\* awaitingConfirmation or confirmed holds the required slots are filled; and
\* createLeadFromCall is only ever called with all of them filled.
C23_ConfirmOnlyWhenReady ==
  [][/\ (~state.awaitingConfirmation /\ state'.awaitingConfirmation)
          => (readyToConfirm(state') /\ ~state.confirmed /\ ~state'.confirmed
              /\ lastQ' = "confirm")
     /\ (state'.awaitingConfirmation \/ state'.confirmed) => readyToConfirm(state')
     /\ leadCalls' > leadCalls => readyToConfirm(state')]_vars

\* C23 witness: the caller has answered every question and said yes at the
\* first confirmation; the lead insert is under way
C23_LeadWithAllSlots ==
  /\ pc = "lead" /\ leadCalls = 1 /\ ~corrected /\ state.confirmed
  /\ readyToConfirm(state) /\ asked = Questions \ {"issue"}

\* C24: the turn that takes "my brakes are grinding" with the dialogue state
\* still empty stores it as the issue text, sets issueCategory to brakes and
\* askedFollowup to true, and what it says is the follow-up question of the
\* category brakes.
C24_BrakesFollowup ==
  [][(state = InitState /\ text = "" /\ text' = "my brakes are grinding")
       => /\ state'.issueText = "my brakes are grinding"
          /\ state'.issueCategory = "brakes"
          /\ state'.askedFollowup /\ state'.awaitingFollowupResponse
          /\ \A f \in {"carMakeModel", "carYear", "name", "zip"} : state'[f] = ""
          /\ lastQ' = "followup" /\ asked' = asked \cup {"followup"}
          /\ Decide(state, vocab[text']).say = FOLLOWUP_BY_CATEGORY["brakes"]
          /\ speakUntilTs' = estimateSpeakMs(FOLLOWUP_BY_CATEGORY["brakes"])]_vars

\* C24 witness: the first thing the caller said was "my brakes are grinding"
\* and the follow-up question is being synthesized
C24_AskedAboutBrakes ==
  /\ text = "my brakes are grinding" /\ pc = "say" /\ lastQ = "followup"
  /\ asked = {"followup"} /\ state.issueCategory = "brakes"
  /\ state.issueText = "my brakes are grinding" /\ state.currentStep = "followup"

\* C25: the issue slot goes from empty to filled only in a turn that begins
\* with currentStep = "issue", and then with the utterance itself, which is
\* longer than 6 characters and holds neither a ZIP nor a name; and a turn
\* that begins with currentStep = "issue" and the issue empty, for an
\* utterance shorter than 6 characters or holding a name or a ZIP, changes no
\* slot and asks for the issue again.
C25_IssueCapture ==
  [][/\ (state.issueText = "" /\ state'.issueText # "")
          => /\ state.currentStep = "issue" /\ text = "" /\ text' # ""
             /\ state'.issueText = text' /\ Len(text') > 6
             /\ vocab[text'].zip = "" /\ vocab[text'].name = ""
     /\ (/\ text = "" /\ text' # "" /\ state.currentStep = "issue" /\ state.issueText = ""
         /\ ~vocab[text'].human
         /\ Len(text') < 6 \/ vocab[text'].zip # "" \/ vocab[text'].name # "")
          => /\ \A f \in Slots : state'[f] = state[f]
             /\ state'.currentStep = "issue" /\ lastQ' = "issue"]_vars

\* C25 witness: "Tom" was said first; nothing was stored and the issue is
\* asked for
C25_TomIsNoIssue ==
  /\ text = "Tom" /\ pc = "say" /\ lastQ = "issue" /\ asked = {"issue"}
  /\ state = InitState

\* C27: in a turn that begins with awaitingCorrectionChoice set, for an
\* utterance that asks for no human: when the utterance names a slot ("zip",
\* "name", "the car", "the issue") that slot is emptied (the car with its
\* year) and no other, correctingField and currentStep become that slot,
\* awaitingCorrectionChoice is reset, no other flag changes and the question
\* of that slot is asked; when it names none, the dialogue state does not
\* change at all and the question what to correct is asked again.
C27_CorrectionChoice ==
  [][(text = "" /\ text' # "" /\ state.awaitingCorrectionChoice /\ ~vocab[text'].human)
       => \A c \in {IF text' = "zip" THEN "zip" ELSE IF text' = "name" THEN "name"
                    ELSE IF text' = "the car" THEN "car"
                    ELSE IF text' = "the issue" THEN "issue" ELSE ""} :
            /\ c # ""
                 => /\ \A f \in Slots : state'[f] = IF FieldOf[f] = c THEN "" ELSE state[f]
                    /\ state'.correctingField = c /\ state'.currentStep = c
                    /\ ~state'.awaitingCorrectionChoice
                    /\ \A g \in {"awaitingConfirmation", "confirmed", "askedFollowup",
                                  "awaitingFollowupResponse", "issueCategory", "leadCreated"} :
                         state'[g] = state[g]
                    /\ lastQ' = c
                    /\ Decide(state, vocab[text']).say = CorrectionQuestion(c)
            /\ c = "" => (state' = state /\ lastQ' = "recorrect")]_vars

\* C27 witness: asked what to correct the caller has said "Tom"; nothing has
\* changed and the same question is being asked again
C27_AskedAgainWhatToCorrect ==
  /\ text = "Tom" /\ pc = "say" /\ lastQ = "recorrect" /\ state.awaitingCorrectionChoice
  /\ state.correctingField = "null" /\ readyToConfirm(state)

\* C28: a turn that begins with the confirmation awaited, for a reply that
\* is neither a yes nor a no (nor a request for a human), changes nothing of
\* the dialogue state and says the confirmation question again, word for
\* word.
C28_ReasksVerbatim ==
  [][(/\ text = "" /\ text' # "" /\ state.awaitingConfirmation /\ ~state.confirmed
      /\ ~vocab[text'].human /\ ~vocab[text'].yes /\ ~vocab[text'].no)
       => /\ state' = state
          /\ Decide(state, vocab[text']).say = ConfirmText(state)]_vars

\* C28 witness: asked to confirm the caller has said "Tom"; the state is
\* unchanged and "Sorry, I didn't catch that. Is that information correct?"
\* is being said
C28_AskedAgainIfCorrect ==
  /\ text = "Tom" /\ pc = "say" /\ lastQ = "reconfirm" /\ state.awaitingConfirmation
  /\ state.currentStep = "confirm" /\ ~corrected

\* C29: the follow-up question is asked by a turn only if it was never
\* asked before in the session, and a turn asks the car question only once
\* the answer to the follow-up has been appended to the issue, that is with
\* awaitingFollowupResponse reset.
C29_FollowupOnceThenCar ==
  [][(text = "" /\ text' # "" /\ pc' = "say")
       => /\ lastQ' = "followup" => ("followup" \notin asked /\ state'.issueText # "")
          /\ lastQ' = "car" => ~state'.awaitingFollowupResponse]_vars

\* C29 witness: the caller has answered the follow-up question with "Tom";
\* nothing was appended to the issue, the answer is still awaited, and the
\* car question is being asked
C29_CarAskedBeforeElaboration ==
  /\ text = "Tom" /\ pc = "say" /\ lastQ = "car" /\ state.awaitingFollowupResponse
  /\ state.issueText = "my brakes are grinding" /\ state.currentStep = "car"
  /\ asked = {"followup", "car"}

\* C30: isSpeaking is true as long as the window speakUntilTs of the latest
\* utterance has not passed, whatever timers of earlier utterances fire
\* meanwhile, and no turn takes an utterance before that window has passed.
C30_FlagCoversWindow ==
  [][/\ speakUntilTs' > 0 => isSpeaking'
     /\ (text = "" /\ text' # "") => speakUntilTs = 0]_vars

\* C30 witness: the release timer of the greeting has cleared isSpeaking
\* during the question of the first turn, and the caller's next transcript
\* was given a turn while the window of that question was still open
C30_TurnDuringUtterance ==
  /\ ~isSpeaking /\ speakUntilTs > 0 /\ finals = 2 /\ pc = "upsert"
  /\ lastQ \in Questions /\ saying["turn"] = NotSaying

\* ------------------------------------------------------------------------
\* The variant src/unnamed/part_001: processTurn without a lock
\* ------------------------------------------------------------------------

\* how many final transcripts one call of part_001 is given at most
MaxTurns == 3

\* how many final transcripts may come while earlier turns are under way
MaxOverlap == 2

\* ws.send of part_001, guarded by ws.readyState === OPEN && streamSid
IntakeSend(c, event, n) ==
  IF c.wsOpen /\ c.streamSid # ""
  THEN [c EXCEPT !.sent = Append(@, [event |-> event, turn |-> n])]
  ELSE c

\* speakOverStream of part_001 up to its await of the synthesis: the clear
\* message is sent, turn n waits for the audio of the line
speakOverStream(c, n, line) ==
  Then(IntakeSend(c, "clear", n),
       LAMBDA d : [d EXCEPT !.turns[n].line = line, !.turns[n].pc = "tts"])

\* the ZIP block of processTurn with a limit of three misfires
ZipRetryLate(st, h) ==
  IF normalizeZip(st.zip) # "" THEN [state |-> st, fallback |-> FALSE]
  ELSE \* z = extractZip(text); if (z) state.zip = z; a misfire is counted
       LET z == h.zip
           s1 == IF z # "" THEN [st EXCEPT !.zip = z] ELSE st
           s2 == IF z = "" /\ h.attempt
                 THEN [s1 EXCEPT !.zipAttempts = @ + 1] ELSE s1
       IN [state |-> s2, fallback |-> s2.zipAttempts >= 3 /\ normalizeZip(s2.zip) = ""]

\* the ZIP block of processTurn: the state after it, and whether
\* offerTextFallback("zip_retry_limit") is called
ZipRetry(st, h) ==
  IF normalizeZip(st.zip) # "" THEN [state |-> st, fallback |-> FALSE]
  ELSE LET z == h.zip
           s1 == IF z # "" THEN [st EXCEPT !.zip = z] ELSE st
           s2 == IF z = "" /\ h.attempt
                 THEN [s1 EXCEPT !.zipAttempts = @ + 1] ELSE s1
       IN [state |-> s2, fallback |-> s2.zipAttempts >= 2 /\ normalizeZip(s2.zip) = ""]

\* if (!state.name) { n = extractName(text); if (n) state.name = n }
IntakeName(st, h) ==
  IF st.name = "" /\ h.name # "" THEN [st EXCEPT !.name = h.name]
  ELSE st

\* the issue capture of processTurn
IntakeIssue(st, h) ==
  IF st.issueText = "" /\ h.length > 6 /\ h.zip = "" /\ h.name = ""
  THEN [st EXCEPT !.issueText = h.issue]
  ELSE st

\* readyToConfirm of part_001
IntakeReady(st) == st.name # "" /\ normalizeZip(st.zip) # "" /\ st.issueText # ""

\* what processTurn does once the slots are filled from the text: the
\* follow-up, the confirmation, the next missing slot, or OpenAI
IntakeAsk(st) ==
  IF st.issueText # "" /\ ~st.askedFollowup
  THEN [state |-> [st EXCEPT !.askedFollowup = TRUE], line |-> "followup", pc |-> "tts"]
  ELSE IF IntakeReady(st) /\ ~st.confirmed /\ ~st.awaitingConfirmation
  THEN [state |-> [st EXCEPT !.awaitingConfirmation = TRUE], line |-> "confirm", pc |-> "tts"]
  ELSE IF st.name = "" THEN [state |-> st, line |-> "name", pc |-> "tts"]
  ELSE IF normalizeZip(st.zip) = "" THEN [state |-> st, line |-> "zip", pc |-> "tts"]
  ELSE IF st.issueText = "" THEN [state |-> st, line |-> "issue", pc |-> "tts"]
  ELSE [state |-> st, line |-> "gpt", pc |-> "gpt"]

\* processTurn up to its first await: the state it leaves, the line it is
\* about to speak and what it awaits first
processTurn(st, h) ==
  IF h.human THEN [state |-> st, line |-> "operator", pc |-> "tts"]
  ELSE IF st.awaitingConfirmation /\ ~st.confirmed /\ h.yes
  THEN [state |-> [st EXCEPT !.confirmed = TRUE, !.awaitingConfirmation = FALSE,
                             !.leadCreated = TRUE],
        line |-> "closing", pc |-> IF st.leadCreated THEN "tts" ELSE "outcome"]
  ELSE IF st.awaitingConfirmation /\ ~st.confirmed /\ h.no
  THEN [state |-> [st EXCEPT !.awaitingConfirmation = FALSE], line |-> "fix", pc |-> "tts"]
  ELSE Then(ZipRetry(IntakeName(st, h), h),
            LAMBDA r : IF r.fallback THEN [state |-> r.state, line |-> "fallback", pc |-> "tts"]
                       ELSE IntakeAsk(IntakeIssue(r.state, h)))

\* the start event: streamSid is stored and the greeting is spoken once
IntakeStart ==
  /\ intake.streamSid = "" /\ intake.wsOpen
  /\ \E n \in {Len(intake.turns) + 1} :
       intake' = speakOverStream(
                   [intake EXCEPT !.streamSid = "MZ", !.greeted = TRUE,
                                  !.turns = Append(@, IntakeTurn("", "greeting", "tts"))],
                   n, "greeting")
  /\ UNCHANGED <<session, sink, debouncer, hangup, helper, router>>

\* the message handler of Deepgram for a final transcript: processTurn is
\* called at once, whatever the earlier turns are waiting for
IntakeFinal ==
  \E u \in IntakeUtterances : \E n \in {Len(intake.turns) + 1} :
  \E r \in {processTurn(intake.state, intake.vocab[u])} :
    /\ intake.streamSid # "" /\ intake.wsOpen /\ ~intake.transferred
    /\ intake.finals < MaxTurns
    /\ intake' =
         Then([intake EXCEPT !.state = r.state, !.finals = @ + 1,
                             !.transferred = (r.line = "operator"),
                             !.turns = Append(@, IntakeTurn(u, r.line, r.pc))],
              LAMBDA c : IF r.pc = "tts" THEN speakOverStream(c, n, r.line) ELSE c)
    /\ UNCHANGED <<session, sink, debouncer, hangup, helper, router>>

\* writeCallOutcome and createLeadAndDispatch have returned (neither
\* throws): the closing line is spoken
IntakeLeadReturned ==
  \E n \in 1..Len(intake.turns) :
    /\ intake.turns[n].pc = "outcome"
    /\ intake' = speakOverStream(intake, n, "closing")
    /\ UNCHANGED <<session, sink, debouncer, hangup, helper, router>>

\* the request to OpenAI has returned: its text, the canned request to
\* repeat when it has none, or the catch block when it threw
IntakeGptReturned ==
  \E n \in 1..Len(intake.turns) : \E line \in {"gpt", "repeat", "tech"} :
    /\ intake.turns[n].pc = "gpt"
    /\ intake' = speakOverStream([intake EXCEPT !.turns[n].caught = (line = "tech")], n, line)
    /\ UNCHANGED <<session, sink, debouncer, hangup, helper, router>>

\* the request of speakOverStream has returned: the audio is sent when
\* the response is ok; when fetch threw, the catch block of processTurn
\* speaks its line (a throw of the greeting or in the catch block is not caught)
IntakeTtsReturned ==
  \E n \in 1..Len(intake.turns) : \E res \in {"ok", "failed", "threw"} :
  \E t \in {intake.turns[n]} :
    /\ t.pc = "tts"
    /\ intake' =
         IF res = "threw"
         THEN IF t.caught \/ t.line = "greeting" THEN [intake EXCEPT !.turns[n].pc = "done"]
              ELSE speakOverStream([intake EXCEPT !.turns[n].caught = TRUE], n, "tech")
         ELSE Then(IF res = "ok" THEN IntakeSend(intake, "media", n) ELSE intake,
                   LAMBDA c : [c EXCEPT !.turns[n].pc =
                                 IF t.line = "operator" THEN "transfer" ELSE "done"])
    /\ UNCHANGED <<session, sink, debouncer, hangup, helper, router>>

\* transferCallToHuman has returned: Deepgram and the socket are closed;
\* when it threw, the catch block speaks its line
IntakeTransferReturned ==
  \E n \in 1..Len(intake.turns) : \E ok \in BOOLEAN :
    /\ intake.turns[n].pc = "transfer"
    /\ intake' =
         IF ok THEN [intake EXCEPT !.wsOpen = FALSE, !.turns[n].pc = "done"]
         ELSE speakOverStream([intake EXCEPT !.turns[n].caught = TRUE], n, "tech")
    /\ UNCHANGED <<session, sink, debouncer, hangup, helper, router>>

\* the caller hangs up
IntakeClose ==
  /\ intake.wsOpen /\ intake.streamSid # ""
  /\ intake' = [intake EXCEPT !.wsOpen = FALSE]
  /\ UNCHANGED <<session, sink, debouncer, hangup, helper, router>>

\* no turn of part_001 is under way
IntakeQuiet == \A n \in 1..Len(intake.turns) : intake.turns[n].pc = "done"

\* a caller who speaks when the line before is over
IntakeCallerSpeaks == IntakeQuiet /\ IntakeFinal

\* a caller who speaks at any moment, two times at most
IntakeCallerInterrupts == intake.finals < MaxOverlap /\ IntakeFinal

\* SpecIntake: one call of part_001 with a caller who waits for each line,
\* from the connection or from the confirmation.
InitIntake ==
  \E m \in {Session([u \in Replies |-> Heard(u)])} : \E c \in {Intake, IntakeAtConfirm} :
    StartSession(m) /\ intake = c /\ hangup = Hangup /\ helper = Helper /\ router = Router

NextIntake ==
  \/ IntakeStart \/ IntakeCallerSpeaks \/ IntakeLeadReturned \/ IntakeGptReturned
  \/ IntakeTtsReturned \/ IntakeTransferReturned \/ IntakeClose

SpecIntake == InitIntake /\ [][NextIntake]_vars

\* SpecOverlap: one call of part_001, its final transcripts arriving at any
\* moment of the turns before them.
NextOverlap ==
  \/ IntakeStart \/ IntakeCallerInterrupts \/ IntakeLeadReturned \/ IntakeGptReturned
  \/ IntakeTtsReturned \/ IntakeTransferReturned \/ IntakeClose

SpecOverlap == InitIntake /\ [][NextOverlap]_vars

\* the turn that has just started in part_001
IntakeLast == intake.turns[Len(intake.turns)]

\* ------------------------------------------------------------------------
\* Properties of the variant part_001 (SpecIntake)
\* ------------------------------------------------------------------------

\* C26: in part_001, the turn that leaves zipAttempts at 2 or more with no
\* valid ZIP stored offers the text fallback (unless it hands the call to
\* an operator); the ZIP question is only asked while zipAttempts is below
\* 2; the fallback is only offered while no valid ZIP is stored; and
\* zipAttempts counts exactly the misfires heard without a valid ZIP.
C26_ZipRetryGuardrail ==
  [][Len(intake'.turns) > Len(intake.turns) /\ intake.streamSid # "" =>
       \A t \in {intake'.turns[Len(intake'.turns)]} : \A st \in {intake'.state} :
         /\ (st.zipAttempts >= 2 /\ normalizeZip(st.zip) = "" /\ t.line # "operator")
              => t.line = "fallback"
         /\ t.line = "zip" => st.zipAttempts < 2 /\ normalizeZip(st.zip) = ""
         /\ t.line = "fallback" => st.zipAttempts >= 2 /\ normalizeZip(st.zip) = ""
         /\ st.zipAttempts > intake.state.zipAttempts =>
              /\ st.zipAttempts = intake.state.zipAttempts + 1
              /\ intake.vocab[t.text].attempt /\ intake.vocab[t.text].zip = ""
              /\ normalizeZip(intake.state.zip) = ""]_vars

\* the ZIP was asked for, asked for again after a first misfire, and the
\* second misfire was answered with the fallback
C26_FallbackAfterTwoMisfires ==
  /\ Len(intake.turns) = 4 /\ IntakeQuiet
  /\ intake.turns[2].text = "Tom" /\ intake.turns[2].line = "zip"
  /\ intake.turns[3].text = "0232" /\ intake.turns[3].line = "zip"
  /\ intake.turns[4].text = "0232" /\ intake.turns[4].line = "fallback"
  /\ intake.state.zipAttempts = 2 /\ intake.state.zip = ""
  /\ intake.sent[Len(intake.sent)] = [event |-> "media", turn |-> 4]

\* C22: in part_001, the audio of a turn is sent after the clear message
\* of that turn, and once the audio of a turn is sent no audio of an
\* earlier turn is sent, also when the turns overlap.
C22_NewTurnCancelsAudio ==
  \A j \in 1..Len(intake.sent) :
    intake.sent[j].event = "media" =>
      /\ \E i \in 1..(j - 1) :
           intake.sent[i] = [event |-> "clear", turn |-> intake.sent[j].turn]
      /\ \A i \in 1..(j - 1) :
           intake.sent[i].event = "media" => intake.sent[i].turn <= intake.sent[j].turn

\* a final transcript came while the turn before it was awaiting its audio
C22_TurnsOverlap ==
  /\ Len(intake.turns) = 3
  /\ intake.turns[2].pc = "tts" /\ intake.turns[3].pc = "tts"
  /\ intake.sent[Len(intake.sent)] = [event |-> "clear", turn |-> 3]

\* ------------------------------------------------------------------------
\* The variant src/unnamed/part_004: replies guarded by a message id, and
\* the hang-up three seconds after the closing line
\* ------------------------------------------------------------------------

\* how many final transcripts one call of part_004 is given at most
MaxReplies == 3

\* how many frames of 160 bytes the audio of a reply has
AudioFrames == 2

\* the pause after each frame, in ms
FrameMs == 20

\* the delay of the hang-up, in ms
HangupMs == 3000

\* routeIntent of part_004: ctx after it and the reply it returns
\* (ctx.data.makeModel and ctx.data.issue, which nothing reads, are left out)
routeIntent(ctx, h) ==
  IF ctx.state = "collect_phone"
  THEN LET p == ctx.phone \o h.phone
           len == Len(ctx.phone \o h.phone)
       IN
         IF len = 3 THEN [ctx |-> [ctx EXCEPT !.phone = p], reply |-> "area"]
         ELSE IF len = 6 THEN [ctx |-> [ctx EXCEPT !.phone = p], reply |-> "next"]
         ELSE IF len = 9 THEN [ctx |-> [ctx EXCEPT !.phone = p], reply |-> "last"]
         ELSE IF len >= 10 THEN [ctx |-> [state |-> "closing", phone |-> p], reply |-> "closing"]
         ELSE IF len > 0 THEN [ctx |-> [ctx EXCEPT !.phone = p], reply |-> "partial"]
         ELSE [ctx |-> ctx, reply |-> "miss"]
  ELSE IF h.where THEN [ctx |-> ctx, reply |-> "location"]
  ELSE IF h.hours THEN [ctx |-> ctx, reply |-> "hours"]
  ELSE IF ctx.state = "greeting" /\ h.brand
  THEN [ctx |-> [ctx EXCEPT !.state = "collect_issue"], reply |-> "problem"]
  ELSE IF ctx.state = "greeting" /\ h.book
  THEN [ctx |-> [ctx EXCEPT !.state = "collect_details"], reply |-> "details"]
  ELSE IF ctx.state = "collect_details"
  THEN [ctx |-> [ctx EXCEPT !.state = "collect_issue"], reply |-> "issue"]
  ELSE IF ctx.state = "collect_issue"
  THEN [ctx |-> [ctx EXCEPT !.state = "collect_phone"], reply |-> "phone"]
  ELSE IF ctx.state = "greeting"
  THEN [ctx |-> [ctx EXCEPT !.state = "collect_details"], reply |-> "car"]
  ELSE [ctx |-> ctx, reply |-> "repeat"]

\* ws.send of part_004 by the reply of message id n
HangupSend(c, event, n) == [c EXCEPT !.sent = Append(@, [event |-> event, id |-> n])]

\* a reply of part_004: what it says, where it is suspended, the frames
\* of its audio not sent yet and the time left of its pause
HangupReply(line) == [line |-> line, pc |-> "tts", left |-> AudioFrames, wait |-> 0]

\* the callback of a hang-up timer that closes the socket whatever the
\* message id is by then
HangupFiresAlways(c, id) ==
  [c EXCEPT !.timers = Tail(@), !.wsOpen = FALSE,
            !.closedBy = IF c.wsOpen THEN id ELSE @]

\* the callback of the hang-up timer of message id: ws.close() when no
\* message has been started since (closing a closed socket does nothing)
HangupFires(c, id) ==
  IF c.currentMsgId = id
  THEN [c EXCEPT !.timers = Tail(@), !.wsOpen = FALSE,
                 !.closedBy = IF c.wsOpen THEN id ELSE @]
  ELSE [c EXCEPT !.timers = Tail(@), !.abandoned = @ \cup {id}]

\* the end of the reply of message id n, after its loop: the hang-up timer
\* when the conversation is closing and n is still the current message
\* (not for the greeting, which has no such step), then the finally block
HangupPlayed(c, n) ==
  [c EXCEPT !.replies[n].pc = "done",
            !.timers = IF c.replies[n].line # "greeting" /\ c.ctx.state = "closing"
                          /\ c.currentMsgId = n
                       THEN Append(@, [id |-> n, left |-> HangupMs, age |-> 0]) ELSE @,
            !.speaking = IF c.currentMsgId = n THEN FALSE ELSE @]

\* the start event: streamSid is stored and the greeting is synthesized
HangupStart ==
  /\ hangup.streamSid = "" /\ hangup.wsOpen
  /\ hangup' = [hangup EXCEPT !.streamSid = "MZ", !.speaking = TRUE, !.currentMsgId = @ + 1,
                              !.replies = Append(@, HangupReply("greeting"))]
  /\ UNCHANGED <<session, sink, debouncer, intake, helper, router>>

\* the message handler of Deepgram for a final transcript, up to its
\* await of the synthesis: clear when a reply is being spoken, a new
\* message id, routeIntent
HangupFinal ==
  \E u \in HangupUtterances : \E r \in {routeIntent(hangup.ctx, hangup.vocab[u])} :
    /\ hangup.streamSid # "" /\ hangup.wsOpen /\ hangup.finals < MaxReplies
    /\ hangup' =
         Then(IF hangup.speaking THEN HangupSend(hangup, "clear", hangup.currentMsgId + 1)
              ELSE hangup,
              LAMBDA c : [c EXCEPT !.currentMsgId = @ + 1, !.ctx = r.ctx, !.speaking = TRUE,
                                   !.finals = @ + 1,
                                   !.replies = Append(@, HangupReply(r.reply))])
    /\ UNCHANGED <<session, sink, debouncer, intake, helper, router>>

\* ttsToMulaw has returned for message id n: the reply gives up when a
\* newer message has started (the greeting only in its loop); when it
\* threw, the catch and finally blocks run (the greeting has none)
HangupTtsReturned ==
  \E n \in 1..Len(hangup.replies) : \E ok \in BOOLEAN : \E r \in {hangup.replies[n]} :
    /\ r.pc = "tts"
    /\ hangup' =
         IF ok /\ (hangup.currentMsgId = n \/ r.line = "greeting")
         THEN [hangup EXCEPT !.replies[n].pc = "frame"]
         ELSE [hangup EXCEPT !.replies[n].pc = "done",
                             !.speaking = IF hangup.currentMsgId = n /\ r.line # "greeting"
                                          THEN FALSE ELSE @]
    /\ UNCHANGED <<session, sink, debouncer, intake, helper, router>>

\* one round of the loop over the frames of message id n: the loop is
\* left when no frame is left, when a newer message has started or when
\* the socket is not open; else a frame is sent and a pause begins
HangupFrame ==
  \E n \in 1..Len(hangup.replies) : \E r \in {hangup.replies[n]} :
    /\ r.pc = "frame"
    /\ hangup' =
         IF r.left = 0 \/ hangup.currentMsgId # n \/ ~hangup.wsOpen
         THEN HangupPlayed(hangup, n)
         ELSE Then(HangupSend(hangup, "media", n),
                   LAMBDA c : [c EXCEPT !.replies[n].pc = "pause", !.replies[n].left = @ - 1,
                                        !.replies[n].wait = FrameMs])
    /\ UNCHANGED <<session, sink, debouncer, intake, helper, router>>

\* the pause after a frame of message id n is over
HangupPauseOver ==
  \E n \in 1..Len(hangup.replies) :
    /\ hangup.replies[n].pc = "pause" /\ hangup.replies[n].wait = 0
    /\ hangup' = [hangup EXCEPT !.replies[n].pc = "frame"]
    /\ UNCHANGED <<session, sink, debouncer, intake, helper, router>>

\* the oldest hang-up timer is due
HangupTimer ==
  /\ hangup.timers # << >> /\ hangup.timers[1].left = 0
  /\ hangup' = HangupFires(hangup, hangup.timers[1].id)
  /\ UNCHANGED <<session, sink, debouncer, intake, helper, router>>

\* the times left of the pauses and of the hang-up timers
HangupWaits ==
  {hangup.replies[n].wait : n \in {k \in 1..Len(hangup.replies) : hangup.replies[k].pc = "pause"}}
    \cup {hangup.timers[i].left : i \in 1..Len(hangup.timers)}

\* time passes until the next pause or timer is over
HangupElapse ==
  /\ HangupWaits # {} /\ 0 \notin HangupWaits
  /\ \E d \in {Min(HangupWaits)} :
       hangup' =
         [hangup EXCEPT
            !.replies = [n \in 1..Len(hangup.replies) |->
                           IF hangup.replies[n].pc = "pause"
                           THEN [hangup.replies[n] EXCEPT !.wait = @ - d]
                           ELSE hangup.replies[n]],
            !.timers = [i \in 1..Len(hangup.timers) |->
                          [hangup.timers[i] EXCEPT !.left = @ - d, !.age = @ + d]]]
  /\ UNCHANGED <<session, sink, debouncer, intake, helper, router>>

\* the caller hangs up
HangupCallerLeaves ==
  /\ hangup.wsOpen /\ hangup.streamSid # ""
  /\ hangup' = [hangup EXCEPT !.wsOpen = FALSE]
  /\ UNCHANGED <<session, sink, debouncer, intake, helper, router>>

\* the call after "honda civic" and "it makes a grinding noise", each said
\* when the reply before was over: the phone number is asked for
HangupAtPhone ==
  [Hangup EXCEPT
     !.ctx = [state |-> "collect_phone", phone |-> ""], !.currentMsgId = 3, !.streamSid = "MZ",
     !.replies = [n \in 1..3 |->
                    [line |-> <<"greeting", "problem", "phone">>[n], pc |-> "done",
                     left |-> 0, wait |-> 0]],
     !.sent = [i \in 1..(3 * AudioFrames) |->
                 [event |-> "media", id |-> ((i - 1) \div AudioFrames) + 1]]]

\* SpecHangup: one call of part_004, its final transcripts arriving at any
\* moment, from the connection or from the question for the phone number.
InitHangup ==
  \E m \in {Session([u \in Replies |-> Heard(u)])} : \E c \in {Hangup, HangupAtPhone} :
    StartSession(m) /\ intake = Intake /\ hangup = c /\ helper = Helper /\ router = Router

NextHangup ==
  \/ HangupStart \/ HangupFinal \/ HangupTtsReturned \/ HangupFrame \/ HangupPauseOver
  \/ HangupTimer \/ HangupElapse \/ HangupCallerLeaves

SpecHangup == InitHangup /\ [][NextHangup]_vars

\* ------------------------------------------------------------------------
\* Properties of the variant part_004 (SpecHangup)
\* ------------------------------------------------------------------------

\* C21: in part_004, a hang-up timer is set only by the current reply of a
\* closing conversation once its loop over the frames is over; it runs
\* HangupMs after that; it closes the socket when its reply is still the
\* current one and leaves the socket alone when a newer reply has started;
\* and the server closes the socket in no other way.
C21_HangupTimedAndCancellable ==
  [][/\ Len(hangup'.timers) > Len(hangup.timers) =>
          \A t \in {hangup'.timers[Len(hangup'.timers)]} :
            /\ t.id = hangup.currentMsgId /\ t.left = HangupMs
            /\ hangup.ctx.state = "closing" /\ hangup'.replies[t.id].pc = "done"
            /\ hangup.replies[t.id].left = 0 \/ ~hangup.wsOpen
     /\ Len(hangup'.timers) < Len(hangup.timers) =>
          \A t \in {hangup.timers[1]} :
            /\ t.left = 0 /\ t.age = HangupMs
            /\ hangup.currentMsgId = t.id => ~hangup'.wsOpen
            /\ hangup.currentMsgId # t.id =>
                 hangup'.wsOpen = hangup.wsOpen /\ hangup'.closedBy = hangup.closedBy
     /\ hangup'.closedBy # hangup.closedBy =>
          /\ Len(hangup'.timers) < Len(hangup.timers)
          /\ hangup'.closedBy = hangup.currentMsgId
          /\ hangup.wsOpen /\ ~hangup'.wsOpen]_vars

\* the caller spoke during the delay after the closing line: the timer of
\* the closing line ran in vain, and the timer of the later reply has
\* closed the socket
C21_AbandonedThenClosed ==
  \E a \in hangup.abandoned :
    /\ hangup.replies[a].line = "closing"
    /\ hangup.closedBy > a /\ ~hangup.wsOpen
    /\ hangup.replies[hangup.closedBy].line = "repeat"

\* ------------------------------------------------------------------------
\* Properties of the dialogue flags and of the outcome writes (part_006)
\* ------------------------------------------------------------------------

\* C38: at most one of awaitingConfirmation, awaitingCorrectionChoice,
\* correctingField set and confirmed holds; awaitingConfirmation implies
\* currentStep = "confirm" and that no follow-up answer is awaited; and
\* confirmed never goes back to false.
C38_FlagsExclusive ==
  [][\A st \in {state'} :
       /\ Cardinality({f \in {"confirm", "choice", "field", "confirmed"} :
                         \/ f = "confirm" /\ st.awaitingConfirmation
                         \/ f = "choice" /\ st.awaitingCorrectionChoice
                         \/ f = "field" /\ st.correctingField # "null"
                         \/ f = "confirmed" /\ st.confirmed}) <= 1
       /\ st.awaitingConfirmation =>
            st.currentStep = "confirm" /\ ~st.awaitingFollowupResponse
       /\ state.confirmed => st.confirmed]_vars

\* the confirmation is awaited again after a correction, no other flag set
C38_ReconfirmAfterCorrection ==
  /\ state.awaitingConfirmation /\ corrected /\ lastQ = "confirm"
  /\ state.correctingField = "null" /\ ~state.awaitingCorrectionChoice /\ ~state.confirmed

\* C33: one utterance updates one slot at most (carYear and carMakeModel
\* being the slot of the car): what is appended to issueText as the
\* answer to the follow-up question fills no other slot.
C33_OneSlotPerUtterance ==
  [][Cardinality({FieldOf[f] : f \in {g \in DOMAIN FieldOf : state'[g] # state[g]}}) <= 1]_vars

\* the answer to the follow-up question has been appended to the issue
C33_ElaborationAppended ==
  /\ pc = "say" /\ text = "it happens all the time" /\ lastQ = "car"
  /\ state.issueText = "my brakes are grinding. it happens all the time"
  /\ state.carMakeModel = "" /\ state.carYear = "" /\ state.name = "" /\ state.zip = ""

\* C37: once a patch with confirmed: true is handed to upsertCallOutcome
\* (the outcomes "confirmed" and "completed" are the ones that carry it),
\* every later patch of the call carries confirmed: true as well.
C37_ConfirmedNotDowngraded ==
  \A i \in 1..Len(outcomes) : \A j \in i..Len(outcomes) :
    outcomes[i] \in {"confirmed", "completed"} => outcomes[j] \in {"confirmed", "completed"}

\* the call was confirmed and then ended by the stop event, both patches
\* with confirmed: true
C37_CompletedAfterConfirmed ==
  /\ Len(outcomes) >= 2 /\ state.confirmed
  /\ outcomes[Len(outcomes) - 1] = "confirmed" /\ outcomes[Len(outcomes)] = "completed"

\* SpecUnheard: SpecFaults, also from the zip question on: the caller has
\* answered the first four questions and may now give the zip, so that the
\* confirmation summary is spoken by a turn whose synthesis may fail.
AtZip(v) ==
  [AtConfirm(v) EXCEPT !.state = After(InitState, SubSeq(Script, 1, 4)),
                       !.asked = {"followup", "car", "name", "zip"},
                       !.lastQ = "zip"]

InitUnheard ==
  \E v \in {[u \in Replies \cup {"02321"} |-> Heard(u)]} :
    \E m \in {Session(v), AtZip(v), AtConfirm(v)} : Start(m)

SpecUnheard == InitUnheard /\ [][NextFaults]_vars

\* C34: when the say() of the confirmation summary returns without having
\* delivered it (the synthesis failed after all retries, or the media
\* stream was not open), awaitingConfirmation is not left set; and
\* createLeadFromCall is only called when no confirmation summary has
\* failed to be delivered.
C34_AwaitedOnlyIfDelivered ==
  [][/\ ( /\ saying["turn"].pc # "none" /\ saying'["turn"].pc = "none" /\ lastQ = "confirm"
          /\ Len(logged') > Len(logged) /\ logged'[Len(logged')] = "speech")
          => ~state'.awaitingConfirmation
     /\ leadCalls' > leadCalls =>
          ~(lastQ = "confirm" /\ \E i \in 1..Len(logged) : logged[i] = "speech")]_vars

\* the confirmation is awaited although the last thing that happened to
\* its summary is that its synthesis failed
C34_AwaitedUnheard ==
  /\ state.awaitingConfirmation /\ lastQ = "confirm" /\ pc = "idle"
  /\ logged # << >> /\ logged[Len(logged)] = "speech"
  /\ saying["turn"] = NotSaying

\* C35: once an escalation has been triggered and its turn is over (the
\* handler has returned and nothing is being spoken), the transcription
\* socket and the media socket have been closed: the call is not left open
\* with transferred set.
C35_EscalationEndsSession ==
  (transferred /\ pc = "idle" /\ \A who \in DOMAIN saying : saying[who] = NotSaying)
    => (~dgOpen /\ ws # "open")

\* the transfer was made or skipped: both sockets were closed by the turn
C35_ClosedAfterTransfer ==
  /\ transferred /\ pc = "idle" /\ ~dgOpen /\ ws = "closing"
  /\ outcomes # << >> /\ outcomes[Len(outcomes)] = "transfer_requested"

\* C32: the phone number that routeIntent accumulates in ctx.data.phone
\* across the utterances of collect_phone never has more than 10 digits.
C32_PhoneAtMostTenDigits == Len(hangup.ctx.phone) <= 10

\* a number given whole in one utterance is stored as its 10 digits and
\* closes the call
C32_WholeNumberStored ==
  hangup.ctx.phone = "6175551234" /\ hangup.ctx.state = "closing"

\* ------------------------------------------------------------------------
\* The helpers normalizePhone and speakZipDigits, applied to given inputs
\* ------------------------------------------------------------------------

\* normalizePhone that prefixes whatever digits there are
normalizePhonePrefixed(phone) ==
  LET digits == DigitsOf(phone, 1)
  IN IF digits = "" THEN "" ELSE "1" \o digits

\* normalizePhone of part_006
normalizePhone(phone) ==
  LET digits == DigitsOf(phone, 1)
  IN IF digits = "" THEN ""
     ELSE IF Len(digits) = 10 THEN "1" \o digits
     ELSE IF Len(digits) = 11 /\ Ch(digits, 1) = "1" THEN digits
     ELSE digits

\* normalizePhone of part_001
normalizePhoneIntake(phone) ==
  LET digits == DigitsOf(phone, 1)
  IN IF digits = "" THEN ""
     ELSE IF Len(digits) = 10 THEN "1" \o digits
     ELSE digits

\* speakZip of part_001
speakZip(zip) ==
  LET z == DigitsOf(zip, 1)
  IN IF Len(z) # 5 THEN zip ELSE JoinFrom(z, 1)

Normalize(fn, phone) ==
  IF fn = "normalizePhone" THEN normalizePhone(phone) ELSE normalizePhoneIntake(phone)

\* the values of From and Caller: nothing, a country code, a number in
\* several writings, one digit too many, no digit at all
Phones ==
  {p \o b \o s : p \in {"", "1", "+1 ", "2"},
                 b \in {"", "617", "6175551234", "(617) 555-1234", "61755512345", "anonymous"},
                 s \in {"", " x", "9"}}

MaxZip == 5

ZipAlphabet == {"0", "2", "9"}

RECURSIVE ZipsOf(_)
ZipsOf(n) == IF n = 0 THEN {""} ELSE {z \o d : z \in ZipsOf(n - 1), d \in ZipAlphabet}

\* the zips, and shorter strings of digits
Zips == UNION {ZipsOf(n) : n \in 1..MaxZip}

\* POST /voice: From is normalized and handed to the stream as a parameter
VoiceWebhook ==
  /\ helper.fn \in {"normalizePhone", "normalizePhoneIntake"} /\ helper.out = << >>
  /\ helper' = [helper EXCEPT !.out = <<Normalize(helper.fn, helper.arg)>>]
  /\ UNCHANGED <<session, sink, debouncer, intake, hangup, router>>

\* the start event: the parameter from is normalized again
StreamStart ==
  /\ helper.fn \in {"normalizePhone", "normalizePhoneIntake"} /\ Len(helper.out) = 1
  /\ helper' = [helper EXCEPT !.out = Append(@, Normalize(helper.fn, helper.out[1]))]
  /\ UNCHANGED <<session, sink, debouncer, intake, hangup, router>>

\* part_006: the zip as spoken, the confirmation summary and the closing
\* line of a session with that zip
ZipConfirmed ==
  /\ helper.fn = "speakZipDigits" /\ helper.out = << >>
  /\ \E st \in {[After(InitState, Script) EXCEPT !.zip = helper.arg]} :
       helper' = [helper EXCEPT !.out = <<speakZipDigits(helper.arg), ConfirmText(st),
                                         ClosingText(st)>>]
  /\ UNCHANGED <<session, sink, debouncer, intake, hangup, router>>

\* part_001: the zip as spoken in its confirmation line and closing line
IntakeZipConfirmed ==
  /\ helper.fn = "speakZip" /\ helper.out = << >>
  /\ helper' = [helper EXCEPT !.out = <<speakZip(normalizeZip(helper.arg))>>]
  /\ UNCHANGED <<session, sink, debouncer, intake, hangup, router>>

InitHelpers ==
  \E m \in {Session([u \in Replies |-> Heard(u)])} :
    /\ StartSession(m) /\ intake = Intake /\ hangup = Hangup /\ router = Router
    /\ helper \in {[fn |-> f, arg |-> a, out |-> << >>] :
                     f \in {"normalizePhone", "normalizePhoneIntake"}, a \in Phones}
                  \cup {[fn |-> f, arg |-> a, out |-> << >>] :
                          f \in {"speakZipDigits", "speakZip"}, a \in Zips}

NextHelpers == VoiceWebhook \/ StreamStart \/ ZipConfirmed \/ IntakeZipConfirmed

\* SpecHelpers: one helper applied to one input, as the handlers apply it
SpecHelpers == InitHelpers /\ [][NextHelpers]_vars

\* C39: normalizePhone applied to its own result returns it unchanged (the
\* number normalized at the voice webhook is the same after the start
\* event has normalized it again); an input of 10 digits gives these
\* digits after a 1, an input without digits gives the empty string.
C39_NormalizePhoneIdempotent ==
  helper.fn \in {"normalizePhone", "normalizePhoneIntake"} =>
    /\ Len(helper.out) = 2 => helper.out[2] = helper.out[1]
    /\ Len(helper.out) >= 1 =>
         /\ Len(DigitsOf(helper.arg, 1)) = 10 => helper.out[1] = "1" \o DigitsOf(helper.arg, 1)
         /\ DigitsOf(helper.arg, 1) = "" => helper.out[1] = ""

\* a number written with brackets and a dash, normalized twice
C39_TenDigitsTwice ==
  /\ helper.fn = "normalizePhone" /\ helper.arg = "(617) 555-1234"
  /\ helper.out = <<"16175551234", "16175551234">>

MaxRouted == 3

\* routeIntent of part_000 on ctx.state and ctx.data.phone: the new ctx and
\* the reply, named by what it asks ("null" when it returns none)
RouterIntent(ctx, h) ==
  LET to(s, line) == [ctx |-> [ctx EXCEPT !.state = s], reply |-> line]
      phone == IF h.phone # "" /\ (Len(ctx.phone) > 0 \/ Len(h.phone) >= 3)
               THEN ctx.phone \o h.phone ELSE ctx.phone
  IN IF h.manager THEN to("confirm_manager", "connect")
     ELSE IF ctx.state = "confirm_manager"
     THEN (IF h.please THEN to("collect_contact_info", "contact") ELSE to("greeting", "help"))
     ELSE IF ctx.state = "confirm_phone"
     THEN (IF h.wrong THEN [ctx |-> [state |-> "collect_phone", phone |-> ""], reply |-> "again"]
           ELSE IF h.correct THEN to("closing", "closing")
           ELSE to("confirm_phone", "sure"))
     ELSE IF ctx.state = "collect_phone"
     THEN (IF Len(phone) >= 10
           THEN [ctx |-> [state |-> "confirm_phone", phone |-> phone], reply |-> "confirm"]
           ELSE [ctx |-> [state |-> "collect_phone", phone |-> phone],
                 reply |-> IF Len(phone) > 0 THEN "digits" ELSE "noted"])
     ELSE IF h.mechanic THEN to(ctx.state, "partners")
     ELSE IF ctx.state = "greeting"
     THEN (IF h.book THEN to("collect_zip", "zip") ELSE to("greeting", "which"))
     ELSE IF ctx.state = "collect_zip"
     THEN (IF h.zip \/ h.long THEN to("collect_details", "details") ELSE to("collect_zip", "where"))
     ELSE IF ctx.state = "collect_details"
     THEN (IF h.unsure THEN to("collect_details", "null")
           ELSE IF h.year THEN to("collect_details", "make")
           ELSE to("collect_issue", "issue"))
     ELSE IF ctx.state = "collect_issue" THEN to("collect_phone", "phone")
     ELSE to(ctx.state, "repeat")

\* speakResponse up to its await of ttsToMulaw
speakResponse(c, line) ==
  [c EXCEPT !.speaking = TRUE, !.currentMsgId = @ + 1,
            !.replies = Append(@, [line |-> line, pc |-> "tts", left |-> AudioFrames])]

\* generateReport, sendSms(MY_PHONE, report) and saveToSupabase
ReportAndSave(c) == [c EXCEPT !.reports = @ + 1, !.saves = @ + 1]

\* speakResponse after its loop, for message id n: the report, the save and
\* the close timer of the current reply of a closing conversation, then finally
RouterPlayed(c, n) ==
  Then(IF c.ctx.state = "closing" /\ c.currentMsgId = n
       THEN [ReportAndSave(c) EXCEPT !.hangups = @ \cup {n}] ELSE c,
       LAMBDA d : [d EXCEPT !.replies[n].pc = "done",
                            !.speaking = IF d.currentMsgId = n THEN FALSE ELSE @])

\* the start event: streamSid is stored and the greeting is spoken
RouterStart ==
  /\ router.streamSid = "" /\ router.wsOpen
  /\ router' = speakResponse([router EXCEPT !.streamSid = "MZ"], "greeting")
  /\ UNCHANGED <<session, sink, debouncer, intake, hangup, helper>>

\* the message handler of Deepgram for a final transcript: nothing when the
\* conversation is closing, the contact or the message timer set again while
\* the caller dictates, else routeIntent and speakResponse
RouterFinal ==
  \E u \in RouterUtterances : \E r \in {RouterIntent(router.ctx, router.vocab[u])} :
    /\ router.streamSid # "" /\ router.finals < MaxRouted
    /\ router' =
         Then([router EXCEPT !.finals = @ + 1], LAMBDA c :
           CASE c.ctx.state = "closing" -> c
             [] c.ctx.state = "collect_contact_info" -> [c EXCEPT !.contactTimer = TRUE]
             [] c.ctx.state = "take_message" -> [c EXCEPT !.messageTimer = TRUE]
             [] r.reply = "null" -> [c EXCEPT !.ctx = r.ctx]
             [] OTHER -> speakResponse([c EXCEPT !.ctx = r.ctx], r.reply))
    /\ UNCHANGED <<session, sink, debouncer, intake, hangup, helper>>

\* the contact timer, 3000 ms after the last transcript of the contact
RouterContactTimer ==
  /\ router.contactTimer
  /\ router' = speakResponse([router EXCEPT !.contactTimer = FALSE,
                                            !.ctx.state = "take_message"], "message")
  /\ UNCHANGED <<session, sink, debouncer, intake, hangup, helper>>

\* the message timer, 6000 ms after the last transcript of the message
RouterMessageTimer ==
  /\ router.messageTimer
  /\ router' = speakResponse(ReportAndSave([router EXCEPT !.messageTimer = FALSE,
                                                          !.ctx.state = "closing"]), "bye")
  /\ UNCHANGED <<session, sink, debouncer, intake, hangup, helper>>

\* ttsToMulaw has returned or thrown for message id n
RouterTtsReturned ==
  \E n \in 1..Len(router.replies) : \E ok \in BOOLEAN :
    /\ router.replies[n].pc = "tts"
    /\ router' =
         IF ok /\ router.currentMsgId = n
         THEN [router EXCEPT !.replies[n].pc = "frame"]
         ELSE [router EXCEPT !.replies[n].pc = "done",
                             !.speaking = IF router.currentMsgId = n THEN FALSE ELSE @]
    /\ UNCHANGED <<session, sink, debouncer, intake, hangup, helper>>

\* one round of the loop over the frames of message id n
RouterFrame ==
  \E n \in 1..Len(router.replies) : \E r \in {router.replies[n]} :
    /\ r.pc = "frame"
    /\ router' =
         IF r.left = 0 \/ router.currentMsgId # n \/ ~router.wsOpen
         THEN RouterPlayed(router, n)
         ELSE [router EXCEPT !.replies[n].pc = "pause", !.replies[n].left = @ - 1]
    /\ UNCHANGED <<session, sink, debouncer, intake, hangup, helper>>

\* the pause of 20 ms after a frame of message id n is over
RouterPauseOver ==
  \E n \in 1..Len(router.replies) :
    /\ router.replies[n].pc = "pause"
    /\ router' = [router EXCEPT !.replies[n].pc = "frame"]
    /\ UNCHANGED <<session, sink, debouncer, intake, hangup, helper>>

\* the close timer of message id n, 3000 ms after its reply
RouterHangup ==
  \E n \in router.hangups :
    /\ router' = [router EXCEPT !.hangups = @ \ {n},
                                !.wsOpen = IF router.currentMsgId = n THEN FALSE ELSE @]
    /\ UNCHANGED <<session, sink, debouncer, intake, hangup, helper>>

RouterDone(lines) ==
  [n \in 1..Len(lines) |-> [line |-> lines[n], pc |-> "done", left |-> 0]]

\* the call after "yes", "02321", "call me back", "call me back" and
\* "617-555-1234", each said when the reply before was over
RouterAtConfirmPhone ==
  [Router EXCEPT !.ctx = [state |-> "confirm_phone", phone |-> "6175551234"],
                 !.currentMsgId = 6, !.streamSid = "MZ",
                 !.replies = RouterDone(<<"greeting", "zip", "details", "issue", "phone",
                                          "confirm">>)]

\* the call after "speak with the owner", "yes", "call me back" and the
\* contact timer, each when the reply before was over
RouterAtMessage ==
  [Router EXCEPT !.ctx = [state |-> "take_message", phone |-> ""],
                 !.currentMsgId = 4, !.streamSid = "MZ",
                 !.replies = RouterDone(<<"greeting", "connect", "contact", "message">>)]

\* SpecRouter: one call of part_000, its final transcripts arriving at any
\* moment, from the connection, from the question whether the phone number
\* is right or from the dictation of the message.
InitRouter ==
  \E m \in {Session([u \in Replies |-> Heard(u)])} :
    \E c \in {Router, RouterAtConfirmPhone, RouterAtMessage} :
      StartSession(m) /\ intake = Intake /\ hangup = Hangup /\ helper = Helper /\ router = c

NextRouter ==
  \/ RouterStart \/ RouterFinal \/ RouterContactTimer \/ RouterMessageTimer
  \/ RouterTtsReturned \/ RouterFrame \/ RouterPauseOver \/ RouterHangup

SpecRouter == InitRouter /\ [][NextRouter]_vars

\* C36: in part_000, once the conversation is closing and no reply is under
\* way any more, the lead report has been sent exactly once and
\* saveToSupabase has been called exactly once.
C36_ReportedAndSavedOnce ==
  (router.ctx.state = "closing"
     /\ \A n \in 1..Len(router.replies) : router.replies[n].pc = "done")
    => (router.reports = 1 /\ router.saves = 1)

\* the booking flow whose closing line was played: one report, one save
C36_BookingReported ==
  /\ router.ctx = [state |-> "closing", phone |-> "6175551234"]
  /\ router.replies[Len(router.replies)] = [line |-> "closing", pc |-> "done", left |-> 0]
  /\ router.reports = 1 /\ router.saves = 1 /\ ~router.wsOpen

=============================================================================
